---- MODULE Spec2Model ----
(***************************************************************************)
(* A model of the go-sanity client library: the request executor `do`     *)
(* (sanity/client.go), the Projects API methods and their request         *)
(* serializers, and the Webhooks API methods (sanity/webhooks.go).         *)
(*                                                                         *)
(* Text is a sequence of tokens: a token is one character of a caller's    *)
(* value, or one fixed literal of the source ("/v2021-06-07/projects/").   *)
(* A JSON value is a record [t, s, kv]: its type, its scalar text and its  *)
(* members in document order.                                              *)
(***************************************************************************)
EXTENDS Integers, Sequences, FiniteSets, TLC

VARIABLES
    client,   \* the Client: baseURL, httpClient, Webhooks.testBaseURL
    pc,       \* where the caller is: "idle", "inflight" (inside client.Do), "returned"
    call,     \* the method called, its arguments and its output target
    req,      \* the request handed to the transport by this call
    nsent,    \* how many times this call invoked the transport
    resp,     \* what the transport gave back to this call
    out,      \* what the method returned: error, value, the exit path of do
    pending   \* calls of other goroutines that wait inside client.Do for their response

vars == <<client, pc, call, req, nsent, resp, out, pending>>

-----------------------------------------------------------------------------
(* Text *)

Upper == <<"A","B","C","D","E","F","G","H","I","J","K","L","M",
           "N","O","P","Q","R","S","T","U","V","W","X","Y","Z">>
Lower == <<"a","b","c","d","e","f","g","h","i","j","k","l","m",
           "n","o","p","q","r","s","t","u","v","w","x","y","z">>

\* One character lower-cased.
ToLowerChar(c) ==
    IF \E i \in 1..Len(Upper) : Upper[i] = c
    THEN Lower[CHOOSE i \in 1..Len(Upper) : Upper[i] = c]
    ELSE c

\* strings.ToLower
ToLower(s) == [i \in 1..Len(s) |-> ToLowerChar(s[i])]

\* strings.Contains(s, sub)
Contains(s, sub) ==
    \E i \in 0..(Len(s) - Len(sub)) :
        \A j \in 1..Len(sub) : s[i + j] = sub[j]

Space == " "
Tab == "\t"
Newline == "\n"
\* U+00A0, a white space character outside ASCII
NoBreakSpace == "U+00A0"

\* The ASCII control characters of the model's alphabet (bytes below 0x20).
ControlChars == {Tab, Newline}

\* The white space characters of the model's alphabet.
WhiteSpace == {Space, Tab, Newline, NoBreakSpace}

\* fmt.Sprintf("%d", n)
Itoa(n) == <<ToString(n)>>

-----------------------------------------------------------------------------
(* JSON values *)

JStr(s) == [t |-> "str", s |-> s, kv |-> <<>>]
JNum(n) == [t |-> "num", s |-> <<ToString(n)>>, kv |-> <<>>]
JBool(b) == [t |-> "bool", s |-> <<IF b THEN "true" ELSE "false">>, kv |-> <<>>]
JNull == [t |-> "null", s |-> <<"null">>, kv |-> <<>>]
JObj(members) == [t |-> "obj", s |-> <<>>, kv |-> members]
JArr(items) == [t |-> "arr", s |-> <<>>, kv |-> [i \in 1..Len(items) |-> [k |-> "", v |-> items[i]]]]
Member(k, v) == [k |-> k, v |-> v]

\* The keys of an object, in document order.
Keys(obj) == [i \in 1..Len(obj.kv) |-> obj.kv[i].k]
KeySet(obj) == {obj.kv[i].k : i \in 1..Len(obj.kv)}
HasKey(obj, k) == obj.t = "obj" /\ k \in KeySet(obj)
\* The value of the first member named k.
Field(obj, k) == obj.kv[CHOOSE i \in 1..Len(obj.kv) :
                          /\ obj.kv[i].k = k
                          /\ \A j \in 1..(i - 1) : obj.kv[j].k # k].v

RECURSIVE Render(_)
RECURSIVE RenderMembers(_, _, _)
\* The text of a value, as encoding/json writes it.
Render(v) ==
    CASE v.t = "str" -> <<"\"">> \o v.s \o <<"\"">>
      [] v.t = "obj" -> <<"{">> \o RenderMembers(v.kv, 1, TRUE) \o <<"}">>
      [] v.t = "arr" -> <<"[">> \o RenderMembers(v.kv, 1, FALSE) \o <<"]">>
      [] OTHER -> v.s
RenderMembers(kv, i, named) ==
    IF i > Len(kv) THEN <<>>
    ELSE (IF i > 1 THEN <<",">> ELSE <<>>)
         \o (IF named THEN <<"\"", kv[i].k, "\"", ":">> ELSE <<>>)
         \o Render(kv[i].v)
         \o RenderMembers(kv, i + 1, named)

\* A body on the wire: its bytes, and the value they parse to when they are JSON.
JSONBody(v) == [valid |-> TRUE, raw |-> Render(v), val |-> v]
RawBody(text) == [valid |-> FALSE, raw |-> text, val |-> JNull]

-----------------------------------------------------------------------------
(* Decoding: encoding/json's rules for the output targets of this package *)

\* The lower-case form of the member names the modelled bodies use: encoding/json
\* matches a member to a struct field by exact name, else ignoring case.
FoldKey(k) ==
    CASE k = "Message" -> "message"
      [] k = "MESSAGE" -> "message"
      [] k = "Deleted" -> "deleted"
      [] OTHER -> k

StringT == [kind |-> "string"]
BoolT == [kind |-> "bool"]
IntT == [kind |-> "int"]
TimeT == [kind |-> "time"]
MapT == [kind |-> "map"]
AnyT == [kind |-> "any"]
SliceT(elem) == [kind |-> "slice", elem |-> elem]
StructT(fields) == [kind |-> "struct", fields |-> fields]
\* A struct field by its json name; O: a field tagged omitempty.
F(name, type) == [name |-> name, type |-> type, omitempty |-> FALSE]
O(name, type) == [name |-> name, type |-> type, omitempty |-> TRUE]

\* Go's nil: the zero value of a slice, a map and an interface.
GoNil == [nil |-> TRUE]

RECURSIVE Zero(_)
\* The zero value of a target, as `var x T` leaves it.
Zero(T) ==
    CASE T.kind = "string" -> <<>>
      [] T.kind = "bool" -> FALSE
      [] T.kind = "int" -> <<"0">>
      [] T.kind = "time" -> <<"0001-01-01T00:00:00Z">>
      [] T.kind = "struct" ->
            [n \in {T.fields[i].name : i \in 1..Len(T.fields)} |->
                Zero(T.fields[CHOOSE i \in 1..Len(T.fields) : T.fields[i].name = n].type)]
      [] OTHER -> GoNil

\* The index of the struct field a member named k is stored in, 0 when none.
FieldIndex(fields, k) ==
    IF \E i \in 1..Len(fields) : fields[i].name = k
    THEN CHOOSE i \in 1..Len(fields) : fields[i].name = k
    ELSE IF \E i \in 1..Len(fields) : FoldKey(fields[i].name) = FoldKey(k)
    THEN CHOOSE i \in 1..Len(fields) : FoldKey(fields[i].name) = FoldKey(k)
    ELSE 0

RECURSIVE DecodeInto(_, _, _)
RECURSIVE DecodeMembers(_, _, _, _)
RECURSIVE DecodeItems(_, _, _)
\* json decoding of value v into a target of type T holding cur:
\* [typeErr: an UnmarshalTypeError was saved, v: the target afterwards].
DecodeInto(v, T, cur) ==
    CASE v.t = "null" -> [typeErr |-> FALSE, v |-> cur]
      [] T.kind = "any" -> [typeErr |-> FALSE, v |-> v]
      [] T.kind = "string" ->
            IF v.t = "str" THEN [typeErr |-> FALSE, v |-> v.s]
            ELSE [typeErr |-> TRUE, v |-> cur]
      [] T.kind = "time" ->
            IF v.t = "str" THEN [typeErr |-> FALSE, v |-> v.s]
            ELSE [typeErr |-> TRUE, v |-> cur]
      [] T.kind = "bool" ->
            IF v.t = "bool" THEN [typeErr |-> FALSE, v |-> (v.s = <<"true">>)]
            ELSE [typeErr |-> TRUE, v |-> cur]
      [] T.kind = "int" ->
            IF v.t = "num" THEN [typeErr |-> FALSE, v |-> v.s]
            ELSE [typeErr |-> TRUE, v |-> cur]
      [] T.kind = "map" ->
            IF v.t = "obj" THEN [typeErr |-> FALSE, v |-> v]
            ELSE [typeErr |-> TRUE, v |-> cur]
      [] T.kind = "slice" ->
            IF v.t = "arr" THEN DecodeItems(v.kv, 1, T.elem)
            ELSE [typeErr |-> TRUE, v |-> cur]
      [] T.kind = "struct" ->
            IF v.t = "obj" THEN DecodeMembers(v.kv, 1, T.fields, [typeErr |-> FALSE, v |-> cur])
            ELSE [typeErr |-> TRUE, v |-> cur]
DecodeMembers(kv, i, fields, acc) ==
    IF i > Len(kv) THEN acc
    ELSE LET Store(f, d) ==
                 DecodeMembers(kv, i + 1, fields,
                     [typeErr |-> acc.typeErr \/ d.typeErr,
                      v |-> [acc.v EXCEPT ![f.name] = d.v]])
             Into(f) == Store(f, DecodeInto(kv[i].v, f.type, acc.v[f.name]))
             At(fi) == IF fi = 0 THEN DecodeMembers(kv, i + 1, fields, acc)
                       ELSE Into(fields[fi])
         IN  At(FieldIndex(fields, kv[i].k))
DecodeItems(kv, i, elem) ==
    IF i > Len(kv) THEN [typeErr |-> FALSE, v |-> <<>>]
    ELSE LET Cons(d, rest) ==
                 [typeErr |-> d.typeErr \/ rest.typeErr, v |-> <<d.v>> \o rest.v]
         IN  Cons(DecodeInto(kv[i].v, elem, Zero(elem)), DecodeItems(kv, i + 1, elem))

-----------------------------------------------------------------------------
(* Errors *)

NilErr == [isNil |-> TRUE, text |-> <<>>]
\* errors.New(text)
NewError(text) == [isNil |-> FALSE, text |-> text]

-----------------------------------------------------------------------------
(* The client (sanity/client.go) *)

DefaultBaseURL == <<"https://api.sanity.io">>
DefaultClient == "http.DefaultClient"

\* The *http.Client values a caller may pass to NewClient: none, or its own.
HttpClients == {"nil", "oauth2Client"}

\* The address of the Client that NewClient allocates, and of its field `common`.
ClientAddr == "&client"
CommonAddr == "&client.common"

\* client := &Client{client: httpClient, baseURL: "https://api.sanity.io"}
\* The services are nil and common.client is nil until they are assigned.
\* testBaseURL is the field of the Webhooks service; it is kept beside the other
\* fields the methods read.
AllocClient(httpClient) ==
    [client |-> IF httpClient = "nil" THEN DefaultClient ELSE httpClient,
     baseURL |-> DefaultBaseURL,
     testBaseURL |-> <<>>,
     common |-> [client |-> "nil"],
     Projects |-> [nil |-> TRUE],
     Webhooks |-> [nil |-> TRUE]]

\* client.common.client = client
SetCommon(c) == [c EXCEPT !.common = [client |-> ClientAddr]]
\* client.Projects = (*ProjectsService)(&client.common): a pointer to common
SetProjects(c) == [c EXCEPT !.Projects = [nil |-> FALSE, ref |-> CommonAddr]]
\* client.Webhooks = &WebhooksService{service: client.common}: a copy of common
SetWebhooks(c) == [c EXCEPT !.Webhooks = [nil |-> FALSE, service |-> c.common]]

\* Mutant: the Webhooks service is built before common.client is assigned.
NewClient_WebhooksFirst(httpClient) ==
    SetProjects(SetCommon(SetWebhooks(AllocClient(httpClient))))

NewClient(httpClient) ==
    SetWebhooks(SetProjects(SetCommon(AllocClient(httpClient))))

\* s.client of the Projects service: read through the pointer to common.
ProjectsClient(c) == IF c.Projects.nil THEN "nil" ELSE c.common.client
\* s.client of the Webhooks service: read from its own copy of the service.
WebhooksClient(c) == IF c.Webhooks.nil THEN "nil" ELSE c.Webhooks.service.client

\* The stand-in server's URL a test of this package sets as Webhooks.testBaseURL.
TestServerURLs == {<<"http://localhost:8080">>}

-----------------------------------------------------------------------------
(* The request executor `do` (sanity/client.go) *)

\* The body argument of do: nil, or a request value with what json.Marshal makes
\* of it (m = [err, val]).
NoBody == [present |-> FALSE, err |-> NilErr, val |-> JNull]
Body(m) == [present |-> TRUE, err |-> m.err, val |-> m.val]

\* What json.Marshal returns for a struct without a MarshalJSON method.
Marshalled(v) == [err |-> NilErr, val |-> v]
\* What json.Marshal returns for a value whose MarshalJSON method returned m: the
\* method's error comes back wrapped in a *json.MarshalerError.
MarshalWith(type, m) ==
    IF m.err.isNil THEN m
    ELSE [err |-> NewError(<<"json: error calling MarshalJSON for type ", type, ": ">>
                           \o m.err.text),
          val |-> JNull]

\* Mutant: the URL is not checked.
ValidURL_Unchecked(url) == TRUE

\* http.NewRequestWithContext parses the URL; url.Parse refuses a URL that holds an
\* ASCII control character.
ValidURL(url) == \A i \in 1..Len(url) : url[i] \notin ControlChars

NoReq == [sent |-> FALSE]
NoResp == [kind |-> "none"]
NoOut == [returned |-> FALSE]

\* Mutant: the header is set only on a request that has a body.
RequestHeader_OnlyWithBody(body) ==
    [ContentType |-> IF body.present THEN "application/json" ELSE ""]

\* req.Header.Set("Content-Type", "application/json"): the header of the request,
\* "" standing for a header that is not set.
RequestHeader(body) == [ContentType |-> "application/json"]

\* do, up to and including the hand-over to client.Do: the local error it returns
\* without a request, or the request it hands to the transport.
\* Mutant: a request that carries a body is always sent as a POST.
DoSend_PostWhenBody(url, verb, body) ==
    IF body.present /\ ~body.err.isNil
    THEN [err |-> body.err, path |-> "marshal", request |-> NoReq]
    ELSE IF ~ValidURL(url)
    THEN [err |-> NewError(<<"parse ">> \o url
                           \o <<": net/url: invalid control character in URL">>),
          path |-> "newrequest", request |-> NoReq]
    ELSE [err |-> NilErr, path |-> "send",
          request |-> [sent |-> TRUE, verb |-> IF body.present THEN "POST" ELSE verb,
                       url |-> url,
                       hasBody |-> body.present,
                       body |-> IF body.present THEN Render(body.val) ELSE <<>>,
                       json |-> body.val,
                       header |-> RequestHeader(body)]]

DoSend(url, verb, body) ==
    IF body.present /\ ~body.err.isNil
    THEN [err |-> body.err, path |-> "marshal", request |-> NoReq]
    ELSE IF ~ValidURL(url)
    THEN [err |-> NewError(<<"parse ">> \o url
                           \o <<": net/url: invalid control character in URL">>),
          path |-> "newrequest", request |-> NoReq]
    ELSE [err |-> NilErr, path |-> "send",
          request |-> [sent |-> TRUE, verb |-> verb, url |-> url,
                       hasBody |-> body.present,
                       body |-> IF body.present THEN Render(body.val) ELSE <<>>,
                       json |-> body.val,
                       header |-> RequestHeader(body)]]

\* The local type errorMessage of do.
ErrorMessageT == StructT(<<F("message", StringT)>>)

\* json.Unmarshal(body, &msg)
UnmarshalErrorMessage(body) ==
    IF ~body.valid THEN [ok |-> FALSE, Message |-> <<>>]
    ELSE LET Unmarshalled(d) == [ok |-> ~d.typeErr, Message |-> d.v["message"]]
         IN  Unmarshalled(DecodeInto(body.val, ErrorMessageT, Zero(ErrorMessageT)))

\* fmt.Errorf("HTTP %d: failed to read error response", status)
ReadFailedError(status) ==
    NewError(<<"HTTP ">> \o Itoa(status) \o <<": failed to read error response">>)

\* Mutant: the fallback error leaves the body out.
FallbackError_NoBody(status, raw) ==
    NewError(<<"HTTP ">> \o Itoa(status) \o <<": ">>)

\* fmt.Errorf("HTTP %d: %s", status, string(body))
FallbackError(status, raw) ==
    NewError(<<"HTTP ">> \o Itoa(status) \o <<": ">> \o raw)

\* Mutant: only 4xx and 5xx are failures.
IsFailureStatus_From400(status) == status >= 400

\* The status codes do treats as failure.
IsFailureStatus(status) == status > 299

\* Mutant: the decoder fills a copy of the target, which stays as it was.
Decode_IntoCopy(r, T) == [err |-> NilErr, v |-> Zero(T)]

\* json.NewDecoder(resp.Body).Decode(result)
Decode(r, T) ==
    IF ~r.readOK
    THEN [err |-> NewError(<<"unexpected EOF">>), v |-> Zero(T)]
    ELSE IF r.body.raw = <<>>
    THEN [err |-> NewError(<<"EOF">>), v |-> Zero(T)]
    ELSE IF ~r.body.valid
    THEN [err |-> NewError(<<"invalid character '", r.body.raw[1],
                             "' looking for beginning of value">>),
          v |-> Zero(T)]
    ELSE LET Decoded(d) ==
                 [err |-> IF d.typeErr
                          THEN NewError(<<"json: cannot unmarshal ", r.body.val.t,
                                          " into Go value">>)
                          ELSE NilErr,
                  v |-> d.v]
         IN  Decoded(DecodeInto(r.body.val, T, Zero(T)))

\* Mutant: the error made of the body's message carries the status code too.
DoRecv_StatusBeforeMessage(r, T) ==
    LET Failed(e, path, closed) == [err |-> e, v |-> Zero(T), path |-> path, closed |-> closed]
        OfBody(msg) ==
            IF msg.ok /\ msg.Message # <<>>
            THEN Failed(NewError(<<"HTTP ">> \o Itoa(r.status) \o <<": ">> \o msg.Message),
                        "message", 1)
            ELSE Failed(FallbackError(r.status, r.body.raw), "fallback", 1)
        Decoded(d) == [err |-> d.err, v |-> d.v, path |-> "decode", closed |-> 1]
    IN  IF r.kind = "error"
        THEN Failed(r.err, "transport", 0)
        ELSE IF r.status > 299
        THEN IF ~r.readOK
             THEN Failed(ReadFailedError(r.status), "readfail", 1)
             ELSE OfBody(UnmarshalErrorMessage(r.body))
        ELSE Decoded(Decode(r, T))

\* Mutant: the body is closed where it was read to its end, not by a defer.
DoRecv_NoCloseOnEarlyExit(r, T) ==
    LET Failed(e, path, closed) == [err |-> e, v |-> Zero(T), path |-> path, closed |-> closed]
        OfBody(msg) ==
            IF msg.ok /\ msg.Message # <<>>
            THEN Failed(NewError(msg.Message), "message", 1)
            ELSE Failed(FallbackError(r.status, r.body.raw), "fallback", 1)
        Decoded(d) == [err |-> d.err, v |-> d.v, path |-> "decode",
                       closed |-> IF d.err.isNil THEN 1 ELSE 0]
    IN  IF r.kind = "error"
        THEN Failed(r.err, "transport", 0)
        ELSE IF IsFailureStatus(r.status)
        THEN IF ~r.readOK
             THEN Failed(ReadFailedError(r.status), "readfail", 0)
             ELSE OfBody(UnmarshalErrorMessage(r.body))
        ELSE Decoded(Decode(r, T))

\* do, from the return of client.Do on: r is what the transport gave, T the type
\* of the output target. [err, v: the target afterwards, path: the exit taken,
\* closed: how many times resp.Body was closed].
\* Mutant: the body of an error response is decoded into the output target
\* before the error is reported.
DoRecv_DecodesErrorBody(r, T) ==
    LET Failed(e, path, closed) == [err |-> e, v |-> Zero(T), path |-> path, closed |-> closed]
        Filled(e, path, d) == [err |-> e, v |-> d.v, path |-> path, closed |-> 1]
        OfBody(msg) ==
            IF msg.ok /\ msg.Message # <<>>
            THEN Filled(NewError(msg.Message), "message", Decode(r, T))
            ELSE Filled(FallbackError(r.status, r.body.raw), "fallback", Decode(r, T))
        Decoded(d) == [err |-> d.err, v |-> d.v, path |-> "decode", closed |-> 1]
    IN  IF r.kind = "error"
        THEN Failed(r.err, "transport", 0)
        ELSE IF IsFailureStatus(r.status)
        THEN IF ~r.readOK
             THEN Failed(ReadFailedError(r.status), "readfail", 1)
             ELSE OfBody(UnmarshalErrorMessage(r.body))
        ELSE Decoded(Decode(r, T))

DoRecv(r, T) ==
    LET Failed(e, path, closed) == [err |-> e, v |-> Zero(T), path |-> path, closed |-> closed]
        OfBody(msg) ==
            IF msg.ok /\ msg.Message # <<>>
            THEN Failed(NewError(msg.Message), "message", 1)
            ELSE Failed(FallbackError(r.status, r.body.raw), "fallback", 1)
        Decoded(d) == [err |-> d.err, v |-> d.v, path |-> "decode", closed |-> 1]
    IN  IF r.kind = "error"
        THEN Failed(r.err, "transport", 0)
        ELSE IF IsFailureStatus(r.status)
        THEN IF ~r.readOK
             THEN Failed(ReadFailedError(r.status), "readfail", 1)
             ELSE OfBody(UnmarshalErrorMessage(r.body))
        ELSE Decoded(Decode(r, T))

\* Mutant: a failed attempt is made once more.
Do_RetryOnFailure(url, verb, body, T, r) ==
    LET Answered(s, d) ==
            [err |-> d.err, v |-> d.v, path |-> d.path, closed |-> d.closed,
             request |-> s.request, nsent |-> IF d.err.isNil THEN 1 ELSE 2, resp |-> r]
        Sent(s) ==
            IF ~s.err.isNil
            THEN [err |-> s.err, v |-> Zero(T), path |-> s.path, closed |-> 0,
                  request |-> NoReq, nsent |-> 0, resp |-> NoResp]
            ELSE Answered(s, DoRecv(r, T))
    IN  Sent(DoSend(url, verb, body))

\* do(ctx, client, url, method, body, result), given the transport's answer r to the
\* request, if do gets as far as making one: nsent counts the calls of client.Do.
Do(url, verb, body, T, r) ==
    LET Answered(s, d) ==
            [err |-> d.err, v |-> d.v, path |-> d.path, closed |-> d.closed,
             request |-> s.request, nsent |-> 1, resp |-> r]
        Sent(s) ==
            IF ~s.err.isNil
            THEN [err |-> s.err, v |-> Zero(T), path |-> s.path, closed |-> 0,
                  request |-> NoReq, nsent |-> 0, resp |-> NoResp]
            ELSE Answered(s, DoRecv(r, T))
    IN  Sent(DoSend(url, verb, body))

-----------------------------------------------------------------------------
(* What callers pass *)

ProjectIds == { <<"p", "1">>, <<"a", "/", "b">> }
\* Dataset names: every text of at most MaxNameLen characters over NameAlphabet.
NameAlphabet == {"a", Space, Tab, NoBreakSpace}
MaxNameLen == 2
DatasetNames == UNION {[1..n -> NameAlphabet] : n \in 0..MaxNameLen}
TagIds == { <<"t", "1">>, <<"t", Newline>> }
TokenIds == { <<"k", "1">> }
UserIds == { <<"u", "1">> }
FeatureNames == { <<"privateDataset">> }
WebhookIds == { <<"w", "1">>, <<"w", "?", "x">> }
EntryIds == { 7 }

\* An optional bool (*bool): unset, or set to a value.
Unset == <<>>
OptBools == { Unset, <<FALSE>>, <<TRUE>> }

CreateProjectRequests ==
    [DisplayName : {<<"N">>}, OrganizationId : {<<>>, <<"o">>}]
UpdateProjectRequests ==
    [DisplayName : {<<>>, <<"N">>}, StudioHost : {<<>>},
     Color : {<<>>, <<"A", "B", "c", "1">>}, ExternalStudioHost : {<<>>, <<"H", "x">>},
     IsDisabledByUser : OptBools, ActivityFeedEnabled : {Unset, <<FALSE>>}]
CreateCORSEntryRequests ==
    [Origin : {<<"http://localhost:3333">>}, AllowCredentials : OptBools]
CreateDatasetRequests ==
    [Name : DatasetNames, AclMode : {<<>>, <<"private">>}]
CopyDatasetRequests ==
    [SourceDataset : {<<"d", "s">>}, TargetDataset : {<<"t", "g", "t">>}]
CreateProjectTokenRequests ==
    [Label : {<<"L">>}, RoleName : {<<"viewer">>}]
CreateDatasetTagRequests ==
    [Name : {<<>>, <<"n">>}, Title : {<<>>, <<"T">>},
     Description : {<<>>, <<"D">>}, Tone : {<<>>, <<"primary">>}]
EditDatasetTagRequests ==
    [Name : {<<>>, <<"n">>}, Title : {<<>>, <<"T">>},
     Description : {<<>>, <<"D">>}, Tone : {<<>>, <<"primary">>}]
\* Headers: a map[string]string, as its members in key order.
HeaderMaps == { <<>>, <<Member("X-Token", JStr(<<"s">>))>> }
CreateWebhookRequests ==
    [Dataset : {<<"d", "s">>}, URL : {<<"https://example.com/webhook">>},
     HttpMethod : {<<>>}, ApiVersion : {<<>>}, IncludeDrafts : OptBools,
     Headers : HeaderMaps, Filter : {<<>>}, Secret : {<<>>}]
UpdateWebhookRequests ==
    [URL : {<<>>, <<"https://example.com/webhook">>}, HttpMethod : {<<>>},
     ApiVersion : {<<>>}, IncludeDrafts : OptBools, Headers : {<<>>},
     Filter : {<<>>}, Secret : {<<>>}, IsDisabled : OptBools]

-----------------------------------------------------------------------------
(* Request serialization *)

\* A string field: always written.
Str(k, s) == <<Member(k, JStr(s))>>
\* A string field tagged omitempty: left out when empty.
OmitEmptyStr(k, s) == IF s = <<>> THEN <<>> ELSE <<Member(k, JStr(s))>>
\* A *bool field tagged omitempty: left out when nil, written when set.
OmitNilBool(k, b) == IF b = Unset THEN <<>> ELSE <<Member(k, JBool(b[1]))>>
\* A map field tagged omitempty: left out when it has no entry.
OmitEmptyMap(k, m) == IF m = <<>> THEN <<>> ELSE <<Member(k, JObj(m))>>

\* json.Marshal of a CreateProjectRequest
CreateProjectRequestJSON(r) ==
    Marshalled(JObj(Str("displayName", r.DisplayName)
                    \o OmitEmptyStr("organizationId", r.OrganizationId)))

\* Mutant: the color is sent as the caller wrote it.
UpdateProjectRequestMarshalJSON_KeepCase(r) ==
    LET Metadata ==
            (IF r.Color # <<>> THEN Str("color", r.Color) ELSE <<>>)
            \o (IF r.ExternalStudioHost # <<>>
                THEN Str("externalHost", r.ExternalStudioHost) ELSE <<>>)
    IN  Marshalled(JObj(OmitEmptyStr("displayName", r.DisplayName)
                        \o OmitEmptyStr("studioHost", r.StudioHost)
                        \o OmitEmptyMap("metadata", Metadata)
                        \o OmitNilBool("isDisabledByUser", r.IsDisabledByUser)
                        \o OmitNilBool("activityFeedEnabled", r.ActivityFeedEnabled)))

\* (*UpdateProjectRequest).MarshalJSON
UpdateProjectRequestMarshalJSON(r) ==
    LET Metadata ==
            (IF r.Color # <<>> THEN Str("color", ToLower(r.Color)) ELSE <<>>)
            \o (IF r.ExternalStudioHost # <<>>
                THEN Str("externalHost", r.ExternalStudioHost) ELSE <<>>)
    IN  Marshalled(JObj(OmitEmptyStr("displayName", r.DisplayName)
                        \o OmitEmptyStr("studioHost", r.StudioHost)
                        \o OmitEmptyMap("metadata", Metadata)
                        \o OmitNilBool("isDisabledByUser", r.IsDisabledByUser)
                        \o OmitNilBool("activityFeedEnabled", r.ActivityFeedEnabled)))

\* json.Marshal of a CreateCORSEntryRequest
CreateCORSEntryRequestJSON(r) ==
    Marshalled(JObj(Str("origin", r.Origin)
                    \o OmitNilBool("allowCredentials", r.AllowCredentials)))

\* json.Marshal of a CreateDatasetRequest: Name is tagged "-"
CreateDatasetRequestJSON(r) ==
    Marshalled(JObj(OmitEmptyStr("aclMode", r.AclMode)))

\* json.Marshal of a CopyDatasetRequest: SourceDataset is tagged "-"
CopyDatasetRequestJSON(r) ==
    Marshalled(JObj(Str("targetDataset", r.TargetDataset)))

\* json.Marshal of a CreateProjectTokenRequest
CreateProjectTokenRequestJSON(r) ==
    Marshalled(JObj(Str("label", r.Label) \o Str("roleName", r.RoleName)))

\* Mutant: the title is checked before the name.
CreateDatasetTagRequestMarshalJSON_TitleFirst(r) ==
    IF r.Title = <<>>
    THEN [err |-> NewError(<<"title is required">>), val |-> JNull]
    ELSE IF r.Name = <<>>
    THEN [err |-> NewError(<<"name is required">>), val |-> JNull]
    ELSE LET Metadata == IF r.Tone # <<>> THEN Str("tone", r.Tone) ELSE <<>>
         IN  Marshalled(JObj(Str("name", r.Name)
                             \o Str("title", r.Title)
                             \o OmitEmptyStr("description", r.Description)
                             \o OmitEmptyMap("metadata", Metadata)))

\* Mutant: the metadata map is written even when it is empty.
CreateDatasetTagRequestMarshalJSON_EmptyMetadata(r) ==
    IF r.Name = <<>>
    THEN [err |-> NewError(<<"name is required">>), val |-> JNull]
    ELSE IF r.Title = <<>>
    THEN [err |-> NewError(<<"title is required">>), val |-> JNull]
    ELSE LET Metadata == IF r.Tone # <<>> THEN Str("tone", r.Tone) ELSE <<>>
         IN  Marshalled(JObj(Str("name", r.Name)
                             \o Str("title", r.Title)
                             \o OmitEmptyStr("description", r.Description)
                             \o <<Member("metadata", JObj(Metadata))>>))

\* (*CreateDatasetTagRequest).MarshalJSON
CreateDatasetTagRequestMarshalJSON(r) ==
    IF r.Name = <<>>
    THEN [err |-> NewError(<<"name is required">>), val |-> JNull]
    ELSE IF r.Title = <<>>
    THEN [err |-> NewError(<<"title is required">>), val |-> JNull]
    ELSE LET Metadata == IF r.Tone # <<>> THEN Str("tone", r.Tone) ELSE <<>>
         IN  Marshalled(JObj(Str("name", r.Name)
                             \o Str("title", r.Title)
                             \o OmitEmptyStr("description", r.Description)
                             \o OmitEmptyMap("metadata", Metadata)))

\* (*EditDatasetTagRequest).MarshalJSON
\* Mutant: editing a tag checks the name and the title as creating one does.
EditDatasetTagRequestMarshalJSON_Validates(r) ==
    IF r.Name = <<>>
    THEN [err |-> NewError(<<"name is required">>), val |-> JNull]
    ELSE IF r.Title = <<>>
    THEN [err |-> NewError(<<"title is required">>), val |-> JNull]
    ELSE LET Metadata == IF r.Tone # <<>> THEN Str("tone", r.Tone) ELSE <<>>
         IN  Marshalled(JObj(Str("name", r.Name)
                             \o OmitEmptyStr("title", r.Title)
                             \o OmitEmptyStr("description", r.Description)
                             \o OmitEmptyMap("metadata", Metadata)))

EditDatasetTagRequestMarshalJSON(r) ==
    LET Metadata == IF r.Tone # <<>> THEN Str("tone", r.Tone) ELSE <<>>
    IN  Marshalled(JObj(Str("name", r.Name)
                        \o OmitEmptyStr("title", r.Title)
                        \o OmitEmptyStr("description", r.Description)
                        \o OmitEmptyMap("metadata", Metadata)))

\* json.Marshal of a CreateWebhookRequest
CreateWebhookRequestJSON(r) ==
    Marshalled(JObj(Str("dataset", r.Dataset)
                    \o Str("url", r.URL)
                    \o OmitEmptyStr("httpMethod", r.HttpMethod)
                    \o OmitEmptyStr("apiVersion", r.ApiVersion)
                    \o OmitNilBool("includeDrafts", r.IncludeDrafts)
                    \o OmitEmptyMap("headers", r.Headers)
                    \o OmitEmptyStr("filter", r.Filter)
                    \o OmitEmptyStr("secret", r.Secret)))

\* json.Marshal of an UpdateWebhookRequest
UpdateWebhookRequestJSON(r) ==
    Marshalled(JObj(OmitEmptyStr("url", r.URL)
                    \o OmitEmptyStr("httpMethod", r.HttpMethod)
                    \o OmitEmptyStr("apiVersion", r.ApiVersion)
                    \o OmitNilBool("includeDrafts", r.IncludeDrafts)
                    \o OmitEmptyMap("headers", r.Headers)
                    \o OmitEmptyStr("filter", r.Filter)
                    \o OmitEmptyStr("secret", r.Secret)
                    \o OmitNilBool("isDisabled", r.IsDisabled)))

-----------------------------------------------------------------------------
(* Output targets *)

RoleT == StructT(<<F("name", StringT), F("title", StringT), O("description", StringT)>>)
MemberT == StructT(<<F("id", StringT), F("createdAt", TimeT), F("updatedAt", TimeT),
                     F("isCurrentUser", BoolT), F("isRobot", BoolT),
                     F("roles", SliceT(RoleT))>>)
ProjectT == StructT(<<F("id", StringT), F("displayName", StringT),
                      O("studioHost", StringT), O("organizationId", StringT),
                      F("metadata", MapT), O("maxRetentionDays", IntT),
                      O("dataClass", StringT), F("isBlocked", BoolT),
                      F("isDisabled", BoolT), F("isDisabledByUser", BoolT),
                      F("activityFeedEnabled", BoolT), F("createdAt", TimeT),
                      F("members", SliceT(MemberT)), O("features", SliceT(StringT)),
                      O("pendingInvites", IntT)>>)
CORSEntryT == StructT(<<F("id", IntT), F("origin", StringT),
                        F("allowCredentials", BoolT), F("createdAt", TimeT),
                        F("updatedAt", TimeT), F("projectId", StringT)>>)
DatasetT == StructT(<<F("name", StringT), F("aclMode", StringT)>>)
\* the local type response of CreateDataset
CreateDatasetResponseT == StructT(<<F("datasetName", StringT), F("aclMode", StringT)>>)
CopyDatasetResponseT == StructT(<<F("datasetName", StringT), F("message", StringT),
                                  F("aclMode", StringT), F("jobId", StringT)>>)
UserT == StructT(<<F("id", StringT), F("sanityUserId", StringT), F("projectId", StringT),
                   F("displayName", StringT), F("familyName", StringT),
                   F("givenName", StringT), O("middleName", StringT),
                   O("imageUrl", StringT), F("createdAt", TimeT), F("updatedAt", TimeT)>>)
ProjectRoleT == StructT(<<F("id", StringT), F("name", StringT), F("description", StringT),
                          F("isRootRole", BoolT), F("readOnly", BoolT),
                          F("isListed", BoolT), F("permissions", SliceT(StringT))>>)
ProjectTokenT == StructT(<<F("id", StringT), F("label", StringT),
                           F("projectUserId", StringT), F("createdAt", TimeT),
                           F("roles", SliceT(RoleT))>>)
CreateProjectTokenResponseT ==
    StructT(ProjectTokenT.fields \o <<F("key", StringT)>>)
DatasetTagT == StructT(<<F("name", StringT), F("title", StringT)>>)
WebhookT == StructT(<<F("id", StringT), F("projectId", StringT), F("dataset", StringT),
                      F("url", StringT), F("httpMethod", StringT),
                      F("apiVersion", StringT), F("includeDrafts", BoolT),
                      O("headers", MapT), O("filter", StringT), F("createdAt", TimeT),
                      F("updatedAt", TimeT), O("secret", StringT),
                      F("isDisabled", BoolT)>>)
\* Mutant: the feature check expects an object holding the flag.
ActiveT_Object == StructT(<<F("active", BoolT)>>)
\* active := false, the target of CheckFeatureActive
ActiveT == BoolT
\* Mutant: the assignment expects the object the unassignment gets.
AssignedT_Object == StructT(<<F("deleted", BoolT)>>)
\* var x any, the target of AssignDatasetTag
AssignedT == AnyT
\* the local types response of the deleting methods
DeletedT == StructT(<<F("deleted", BoolT)>>)
DeleteCORSEntryResponseT == StructT(<<F("id", IntT), F("deleted", BoolT)>>)
DeleteProjectTokenResponseT ==
    StructT(<<F("id", StringT), F("deleted", BoolT), O("description", StringT),
              O("metadata", MapT)>>)

-----------------------------------------------------------------------------
(* Encoding: what a server makes of a value of a result type *)

\* Go's nil, told from every other value by its printed form.
IsNil(x) == ToString(x) = ToString(GoNil)

\* What omitempty leaves out: "", false, 0, a nil or empty map or slice.
IsEmptyValue(T, x) ==
    CASE T.kind = "string" -> x = <<>>
      [] T.kind = "bool" -> x = FALSE
      [] T.kind = "int" -> x = <<"0">>
      [] T.kind = "map" -> IsNil(x) \/ x.kv = <<>>
      [] T.kind = "slice" -> IsNil(x) \/ x = <<>>
      [] T.kind = "any" -> IsNil(x)
      [] OTHER -> FALSE

RECURSIVE Encode(_, _)
RECURSIVE EncodeFields(_, _, _)
\* json.Marshal of a value x of type T: nil is written null, a struct as its
\* fields in order, a field tagged omitempty only when it is not empty.
Encode(T, x) ==
    CASE T.kind = "string" -> JStr(x)
      [] T.kind = "time" -> JStr(x)
      [] T.kind = "bool" -> JBool(x)
      [] T.kind = "int" -> [t |-> "num", s |-> x, kv |-> <<>>]
      [] T.kind = "map" -> IF IsNil(x) THEN JNull ELSE x
      [] T.kind = "any" -> IF IsNil(x) THEN JNull ELSE x
      [] T.kind = "slice" ->
            IF IsNil(x) THEN JNull
            ELSE JArr([i \in 1..Len(x) |-> Encode(T.elem, x[i])])
      [] T.kind = "struct" -> JObj(EncodeFields(T.fields, 1, x))
EncodeFields(fields, i, x) ==
    IF i > Len(fields) THEN <<>>
    ELSE (IF fields[i].omitempty /\ IsEmptyValue(fields[i].type, x[fields[i].name])
          THEN <<>>
          ELSE <<Member(fields[i].name, Encode(fields[i].type, x[fields[i].name]))>>)
         \o EncodeFields(fields, i + 1, x)

RECURSIVE Sample(_)
\* A value of type T with every field set, as a test's server fills it in.
Sample(T) ==
    CASE T.kind = "string" -> <<"s">>
      [] T.kind = "bool" -> TRUE
      [] T.kind = "int" -> <<"7">>
      [] T.kind = "time" -> <<"2025-02-19T10:00:00Z">>
      [] T.kind = "map" -> JObj(<<Member("k", JStr(<<"v">>))>>)
      [] T.kind = "any" -> JStr(<<"s">>)
      [] T.kind = "slice" -> <<Sample(T.elem)>>
      [] T.kind = "struct" ->
            [n \in {T.fields[i].name : i \in 1..Len(T.fields)} |->
                Sample(T.fields[CHOOSE i \in 1..Len(T.fields) : T.fields[i].name = n].type)]

\* The result types of the methods that return a struct or a list.
ResultTypes ==
    { ProjectT, SliceT(ProjectT), CORSEntryT, SliceT(CORSEntryT), DatasetT,
      SliceT(DatasetT), CopyDatasetResponseT, SliceT(StringT), UserT,
      SliceT(ProjectRoleT), SliceT(ProjectTokenT), CreateProjectTokenResponseT,
      DatasetTagT, SliceT(DatasetTagT), WebhookT, SliceT(WebhookT) }

\* The values of a result type a server answers with: nothing set, all set.
ResultValues(T) == <<Zero(T), Sample(T)>>

\* The JSON encodings of those values.
EncodedResults ==
    UNION {{Encode(T, ResultValues(T)[i]) : i \in 1..Len(ResultValues(T))} : T \in ResultTypes}

-----------------------------------------------------------------------------
(* What the transport may answer *)

\* The status codes of the modelled answers: both sides of the 299/300 line.
Statuses == {200, 299, 300, 404}

Msg == <<"b", "o", "o", "m">>
Msg2 == <<"N", "o">>

\* Bodies that are JSON.
JSONValues ==
    { JObj(<<Member("message", JStr(Msg))>>),
      JObj(<<Member("statusCode", JNum(404)), Member("error", JStr(<<"Not Found">>)),
             Member("message", JStr(Msg))>>),
      JObj(<<Member("message", JStr(<<>>))>>),
      JObj(<<Member("message", JNum(5))>>),
      JObj(<<Member("message", JNull)>>),
      JObj(<<Member("Message", JStr(Msg2))>>),
      JObj(<<Member("message", JStr(Msg)), Member("Message", JStr(Msg2))>>),
      JObj(<<Member("MESSAGE", JNum(5)), Member("message", JStr(Msg))>>),
      JObj(<<Member("error", JStr(<<"x">>))>>),
      JObj(<<>>),
      JNull,
      JBool(TRUE),
      JBool(FALSE),
      JStr(Msg),
      JArr(<<>>),
      JArr(<<JStr(<<"f">>)>>),
      JArr(<<JObj(<<Member("id", JStr(<<"w", "1">>)), Member("name", JStr(<<"n">>)),
                    Member("title", JStr(<<"T">>))>>)>>),
      JObj(<<Member("deleted", JBool(TRUE))>>),
      JObj(<<Member("deleted", JStr(<<"yes">>))>>),
      JObj(<<Member("datasetName", JStr(<<"d", "s">>)),
             Member("aclMode", JStr(<<"private">>))>>),
      JObj(<<Member("id", JStr(<<"w", "1">>)), Member("name", JStr(<<"n">>)),
             Member("title", JStr(<<"T">>)), Member("dataset", JStr(<<"d", "s">>)),
             Member("url", JStr(<<"https://example.com/webhook">>)),
             Member("includeDrafts", JBool(TRUE)), Member("type", JStr(<<"document">>))>>) }

\* Bodies that are not JSON: nothing at all, and an HTML error page.
RawTexts == { <<>>, <<"<", "html>Bad Gateway</html>">> }

Bodies == {JSONBody(v) : v \in JSONValues \cup EncodedResults} \cup {RawBody(t) : t \in RawTexts}

\* The errors client.Do returns without a response.
TransportErrors == { NewError(<<"context canceled">>),
                     NewError(<<"dial tcp: connection refused">>) }

\* An answer: an error of the transport, or a response with a status and a body
\* that reads to its end (readOK) or fails while being read.
Responses ==
    {[kind |-> "error", err |-> e, status |-> 0, body |-> RawBody(<<>>), readOK |-> FALSE] :
        e \in TransportErrors}
    \cup {[kind |-> "response", err |-> NilErr, status |-> st, body |-> b, readOK |-> TRUE] :
        st \in Statuses, b \in Bodies}
    \cup {[kind |-> "response", err |-> NilErr, status |-> st, body |-> RawBody(<<>>),
           readOK |-> FALSE] : st \in Statuses}

-----------------------------------------------------------------------------
(* Methods *)

\* What a method hands back after do returned d. ret is the form of its return
\* statement: "pointer" (return &x, err), "value" (return x, err), "deleted"
\* (return resp.Deleted, err), "error" (return err).
\* Mutant: the method returns a new error that wraps the executor's.
Finish_WrapsError(ret, d) ==
    [returned |-> TRUE,
     err |-> IF d.err.isNil THEN NilErr ELSE NewError(<<"sanity: ">> \o d.err.text),
     path |-> d.path, closed |-> d.closed,
     isNil |-> FALSE,
     val |-> CASE ret = "deleted" -> d.v["deleted"]
               [] ret = "error" -> GoNil
               [] OTHER -> d.v]

Finish(ret, d) ==
    [returned |-> TRUE, err |-> d.err, path |-> d.path, closed |-> d.closed,
     isNil |-> FALSE,
     val |-> CASE ret = "deleted" -> d.v["deleted"]
               [] ret = "error" -> GoNil
               [] OTHER -> d.v]

\* One call of a method: the method builds url, calls do once (d is what do did
\* and returned) and returns o.
\* What the request executor handed back to the method, if the method called it.
DoReturned(d) ==
    IF "err" \in DOMAIN d THEN [called |-> TRUE, err |-> d.err] ELSE [called |-> FALSE]

\* Mutant: a webhook method keeps the base URL it computed in the service, for
\* the calls that follow.
Call_KeepsBaseURL(op, args, url, d, o) ==
    /\ pc' = "returned"
    /\ call' = [op |-> op, args |-> args, url |-> url, do |-> DoReturned(d)]
    /\ req' = d.request
    /\ nsent' = d.nsent
    /\ resp' = d.resp
    /\ out' = o
    /\ client' = IF "webhookId" \in DOMAIN args
                 THEN [client EXCEPT !.testBaseURL =
                          IF @ # <<>> THEN @
                          ELSE <<"https://">> \o args.projectId
                               \o <<".api.sanity.io/v2025-02-19">>]
                 ELSE client
    /\ UNCHANGED pending

Call(op, args, url, d, o) ==
    /\ pc' = "returned"
    /\ call' = [op |-> op, args |-> args, url |-> url, do |-> DoReturned(d)]
    /\ req' = d.request
    /\ nsent' = d.nsent
    /\ resp' = d.resp
    /\ out' = o
    /\ UNCHANGED <<client, pending>>

\* Mutant: without an override the client's shared base URL is used.
getWebhookBaseURL_Shared(projectId) ==
    IF client.testBaseURL # <<>>
    THEN client.testBaseURL
    ELSE client.baseURL

\* (*WebhooksService).getWebhookBaseURL
getWebhookBaseURL(projectId) ==
    IF client.testBaseURL # <<>>
    THEN client.testBaseURL
    ELSE <<"https://">> \o projectId \o <<".api.sanity.io/v2025-02-19">>

\* The prefix of every Projects API URL: "%s/v2021-06-07/projects", s.client.baseURL
ProjectsURL == client.baseURL \o <<"/v2021-06-07/projects">>
\* "%s/hooks/projects/%s", s.getWebhookBaseURL(projectId), projectId
HooksURL(projectId) == getWebhookBaseURL(projectId) \o <<"/hooks/projects/">> \o projectId

ProjectsList ==
    /\ pc = "idle"
    /\ \E r0 \in Responses :
        LET url == ProjectsURL
        IN  \E d \in {Do(url, "GET", NoBody,
                         SliceT(ProjectT), r0)} :
                Call("Projects.List", <<>>, url, d, Finish("value", d))

ProjectsCreate ==
    /\ pc = "idle"
    /\ \E r \in CreateProjectRequests, r0 \in Responses :
        LET url == ProjectsURL
        IN  \E d \in {Do(url, "POST", Body(CreateProjectRequestJSON(r)),
                         ProjectT, r0)} :
                Call("Projects.Create", [r |-> r], url, d, Finish("pointer", d))

ProjectsGet ==
    /\ pc = "idle"
    /\ \E projectId \in ProjectIds, r0 \in Responses :
        LET url == ProjectsURL \o <<"/">> \o projectId
        IN  \E d \in {Do(url, "GET", NoBody,
                         ProjectT, r0)} :
                Call("Projects.Get", [projectId |-> projectId], url, d, Finish("pointer", d))

ProjectsUpdate ==
    /\ pc = "idle"
    /\ \E projectId \in ProjectIds, r \in UpdateProjectRequests, r0 \in Responses :
        LET url == ProjectsURL \o <<"/">> \o projectId
        IN  \E d \in {Do(url, "PATCH", Body(MarshalWith("*sanity.UpdateProjectRequest", UpdateProjectRequestMarshalJSON(r))),
                         ProjectT, r0)} :
                Call("Projects.Update", [projectId |-> projectId, r |-> r], url, d, Finish("pointer", d))

ProjectsDelete ==
    /\ pc = "idle"
    /\ \E projectId \in ProjectIds, r0 \in Responses :
        LET url == ProjectsURL \o <<"/">> \o projectId
        IN  \E d \in {Do(url, "DELETE", NoBody,
                         DeletedT, r0)} :
                Call("Projects.Delete", [projectId |-> projectId], url, d, Finish("deleted", d))

ListCORSEntries ==
    /\ pc = "idle"
    /\ \E projectId \in ProjectIds, r0 \in Responses :
        LET url == ProjectsURL \o <<"/">> \o projectId \o <<"/cors">>
        IN  \E d \in {Do(url, "GET", NoBody,
                         SliceT(CORSEntryT), r0)} :
                Call("Projects.ListCORSEntries", [projectId |-> projectId], url, d, Finish("value", d))

CreateCORSEntry ==
    /\ pc = "idle"
    /\ \E projectId \in ProjectIds, r \in CreateCORSEntryRequests, r0 \in Responses :
        LET url == ProjectsURL \o <<"/">> \o projectId \o <<"/cors">>
        IN  \E d \in {Do(url, "POST", Body(CreateCORSEntryRequestJSON(r)),
                         CORSEntryT, r0)} :
                Call("Projects.CreateCORSEntry", [projectId |-> projectId, r |-> r], url, d, Finish("pointer", d))

DeleteCORSEntry ==
    /\ pc = "idle"
    /\ \E projectId \in ProjectIds, entryId \in EntryIds, r0 \in Responses :
        LET url == ProjectsURL \o <<"/">> \o projectId \o <<"/cors/">> \o Itoa(entryId)
        IN  \E d \in {Do(url, "DELETE", NoBody,
                         DeleteCORSEntryResponseT, r0)} :
                Call("Projects.DeleteCORSEntry", [projectId |-> projectId, entryId |-> entryId], url, d, Finish("deleted", d))

ListDatasets ==
    /\ pc = "idle"
    /\ \E projectId \in ProjectIds, r0 \in Responses :
        LET url == ProjectsURL \o <<"/">> \o projectId \o <<"/datasets">>
        IN  \E d \in {Do(url, "GET", NoBody,
                         SliceT(DatasetT), r0)} :
                Call("Projects.ListDatasets", [projectId |-> projectId], url, d, Finish("value", d))

\* Mutant: only a leading space is looked for.
HasSpace_LeadingOnly(name) == Len(name) > 0 /\ name[1] = Space

\* strings.Contains(r.Name, " ")
HasSpace(name) == Contains(name, <<Space>>)

\* Mutant: like the other methods, CreateDataset returns the address of its
\* result whatever the error is.
CreateDataset_ReturnsBoth ==
    /\ pc = "idle"
    /\ \E projectId \in ProjectIds, r \in CreateDatasetRequests, r0 \in Responses :
        LET url == ProjectsURL \o <<"/">> \o projectId \o <<"/datasets/">> \o r.Name
            args == [projectId |-> projectId, r |-> r]
        IN  IF HasSpace(r.Name)
            THEN Call("Projects.CreateDataset", args, url,
                      [request |-> NoReq, nsent |-> 0, resp |-> NoResp],
                      [returned |-> TRUE, err |-> NewError(<<"name cannot contain spaces">>),
                       path |-> "validate", closed |-> 0, isNil |-> TRUE, val |-> GoNil])
            ELSE \E d \in {Do(url, "PUT", Body(CreateDatasetRequestJSON(r)),
                             CreateDatasetResponseT, r0)} :
                     Call("Projects.CreateDataset", args, url, d,
                          [returned |-> TRUE, err |-> d.err, path |-> d.path,
                           closed |-> d.closed, isNil |-> FALSE,
                           val |-> [name |-> d.v["datasetName"],
                                    aclMode |-> d.v["aclMode"]]])

CreateDataset ==
    /\ pc = "idle"
    /\ \E projectId \in ProjectIds, r \in CreateDatasetRequests, r0 \in Responses :
        LET url == ProjectsURL \o <<"/">> \o projectId \o <<"/datasets/">> \o r.Name
            args == [projectId |-> projectId, r |-> r]
        IN  IF HasSpace(r.Name)
            THEN Call("Projects.CreateDataset", args, url,
                      [request |-> NoReq, nsent |-> 0, resp |-> NoResp],
                      [returned |-> TRUE, err |-> NewError(<<"name cannot contain spaces">>),
                       path |-> "validate", closed |-> 0, isNil |-> TRUE, val |-> GoNil])
            ELSE \E d \in {Do(url, "PUT", Body(CreateDatasetRequestJSON(r)),
                             CreateDatasetResponseT, r0)} :
                     Call("Projects.CreateDataset", args, url, d,
                          IF ~d.err.isNil
                          THEN [returned |-> TRUE, err |-> d.err, path |-> d.path,
                                closed |-> d.closed, isNil |-> TRUE, val |-> GoNil]
                          ELSE [returned |-> TRUE, err |-> NilErr, path |-> d.path,
                                closed |-> d.closed, isNil |-> FALSE,
                                val |-> [name |-> d.v["datasetName"],
                                         aclMode |-> d.v["aclMode"]]])

CopyDataset ==
    /\ pc = "idle"
    /\ \E projectId \in ProjectIds, r \in CopyDatasetRequests, r0 \in Responses :
        LET url == ProjectsURL \o <<"/">> \o projectId \o <<"/datasets/">> \o r.SourceDataset \o <<"/copy">>
        IN  \E d \in {Do(url, "PUT", Body(CopyDatasetRequestJSON(r)),
                         CopyDatasetResponseT, r0)} :
                Call("Projects.CopyDataset", [projectId |-> projectId, r |-> r], url, d, Finish("pointer", d))

DeleteDataset ==
    /\ pc = "idle"
    /\ \E projectId \in ProjectIds, datasetName \in DatasetNames, r0 \in Responses :
        LET url == ProjectsURL \o <<"/">> \o projectId \o <<"/datasets/">> \o datasetName
        IN  \E d \in {Do(url, "DELETE", NoBody,
                         DeletedT, r0)} :
                Call("Projects.DeleteDataset", [projectId |-> projectId, datasetName |-> datasetName], url, d, Finish("deleted", d))

ListActiveFeatures ==
    /\ pc = "idle"
    /\ \E projectId \in ProjectIds, r0 \in Responses :
        LET url == ProjectsURL \o <<"/">> \o projectId \o <<"/features">>
        IN  \E d \in {Do(url, "GET", NoBody,
                         SliceT(StringT), r0)} :
                Call("Projects.ListActiveFeatures", [projectId |-> projectId], url, d, Finish("value", d))

CheckFeatureActive ==
    /\ pc = "idle"
    /\ \E projectId \in ProjectIds, featureName \in FeatureNames, r0 \in Responses :
        LET url == ProjectsURL \o <<"/">> \o projectId \o <<"/features/">> \o featureName
        IN  \E d \in {Do(url, "GET", NoBody,
                         ActiveT, r0)} :
                Call("Projects.CheckFeatureActive", [projectId |-> projectId, featureName |-> featureName], url, d, Finish("value", d))

ListPermissions ==
    /\ pc = "idle"
    /\ \E projectId \in ProjectIds, r0 \in Responses :
        LET url == ProjectsURL \o <<"/">> \o projectId \o <<"/permissions">>
        IN  \E d \in {Do(url, "GET", NoBody,
                         SliceT(StringT), r0)} :
                Call("Projects.ListPermissions", [projectId |-> projectId], url, d, Finish("value", d))

GetUser ==
    /\ pc = "idle"
    /\ \E projectId \in ProjectIds, userId \in UserIds, r0 \in Responses :
        LET url == ProjectsURL \o <<"/">> \o projectId \o <<"/users/">> \o userId
        IN  \E d \in {Do(url, "GET", NoBody,
                         UserT, r0)} :
                Call("Projects.GetUser", [projectId |-> projectId, userId |-> userId], url, d, Finish("pointer", d))

ListProjectRoles ==
    /\ pc = "idle"
    /\ \E projectId \in ProjectIds, r0 \in Responses :
        LET url == ProjectsURL \o <<"/">> \o projectId \o <<"/roles">>
        IN  \E d \in {Do(url, "GET", NoBody,
                         SliceT(ProjectRoleT), r0)} :
                Call("Projects.ListProjectRoles", [projectId |-> projectId], url, d, Finish("value", d))

ListProjectTokens ==
    /\ pc = "idle"
    /\ \E projectId \in ProjectIds, r0 \in Responses :
        LET url == ProjectsURL \o <<"/">> \o projectId \o <<"/tokens">>
        IN  \E d \in {Do(url, "GET", NoBody,
                         SliceT(ProjectTokenT), r0)} :
                Call("Projects.ListProjectTokens", [projectId |-> projectId], url, d, Finish("value", d))

CreateProjectToken ==
    /\ pc = "idle"
    /\ \E projectId \in ProjectIds, r \in CreateProjectTokenRequests, r0 \in Responses :
        LET url == ProjectsURL \o <<"/">> \o projectId \o <<"/tokens">>
        IN  \E d \in {Do(url, "POST", Body(CreateProjectTokenRequestJSON(r)),
                         CreateProjectTokenResponseT, r0)} :
                Call("Projects.CreateProjectToken", [projectId |-> projectId, r |-> r], url, d, Finish("pointer", d))

DeleteProjectToken ==
    /\ pc = "idle"
    /\ \E projectId \in ProjectIds, tokenId \in TokenIds, r0 \in Responses :
        LET url == ProjectsURL \o <<"/">> \o projectId \o <<"/tokens/">> \o tokenId
        IN  \E d \in {Do(url, "DELETE", NoBody,
                         DeleteProjectTokenResponseT, r0)} :
                Call("Projects.DeleteProjectToken", [projectId |-> projectId, tokenId |-> tokenId], url, d, Finish("deleted", d))

ListsDatasetTags ==
    /\ pc = "idle"
    /\ \E projectId \in ProjectIds, datasetName \in DatasetNames, r0 \in Responses :
        LET url == ProjectsURL \o <<"/">> \o projectId \o <<"/datasets/">> \o datasetName \o <<"/tags">>
        IN  \E d \in {Do(url, "GET", NoBody,
                         SliceT(DatasetTagT), r0)} :
                Call("Projects.ListsDatasetTags", [projectId |-> projectId, datasetName |-> datasetName], url, d, Finish("value", d))

CreateDatasetTag ==
    /\ pc = "idle"
    /\ \E projectId \in ProjectIds, r \in CreateDatasetTagRequests, r0 \in Responses :
        LET url == ProjectsURL \o <<"/">> \o projectId \o <<"/tags">>
        IN  \E d \in {Do(url, "POST", Body(MarshalWith("*sanity.CreateDatasetTagRequest", CreateDatasetTagRequestMarshalJSON(r))),
                         DatasetTagT, r0)} :
                Call("Projects.CreateDatasetTag", [projectId |-> projectId, r |-> r], url, d, Finish("pointer", d))

EditDatasetTag ==
    /\ pc = "idle"
    /\ \E projectId \in ProjectIds, tagIdentifier \in TagIds, r \in EditDatasetTagRequests, r0 \in Responses :
        LET url == ProjectsURL \o <<"/">> \o projectId \o <<"/tags/">> \o tagIdentifier
        IN  \E d \in {Do(url, "PUT", Body(MarshalWith("*sanity.EditDatasetTagRequest", EditDatasetTagRequestMarshalJSON(r))),
                         DatasetTagT, r0)} :
                Call("Projects.EditDatasetTag", [projectId |-> projectId, tagIdentifier |-> tagIdentifier, r |-> r], url, d, Finish("pointer", d))

AssignDatasetTag ==
    /\ pc = "idle"
    /\ \E projectId \in ProjectIds, datasetName \in DatasetNames, tagIdentifier \in TagIds, r0 \in Responses :
        LET url == ProjectsURL \o <<"/">> \o projectId \o <<"/datasets/">> \o datasetName \o <<"/tags/">> \o tagIdentifier
        IN  \E d \in {Do(url, "PUT", NoBody,
                         AssignedT, r0)} :
                Call("Projects.AssignDatasetTag", [projectId |-> projectId, datasetName |-> datasetName, tagIdentifier |-> tagIdentifier], url, d, Finish("error", d))

UnassignDatasetTag ==
    /\ pc = "idle"
    /\ \E projectId \in ProjectIds, datasetName \in DatasetNames, tagIdentifier \in TagIds, r0 \in Responses :
        LET url == ProjectsURL \o <<"/">> \o projectId \o <<"/datasets/">> \o datasetName \o <<"/tags/">> \o tagIdentifier
        IN  \E d \in {Do(url, "DELETE", NoBody,
                         DeletedT, r0)} :
                Call("Projects.UnassignDatasetTag", [projectId |-> projectId, datasetName |-> datasetName, tagIdentifier |-> tagIdentifier], url, d, Finish("deleted", d))

DeleteDatasetTag ==
    /\ pc = "idle"
    /\ \E projectId \in ProjectIds, tagIdentifier \in TagIds, r0 \in Responses :
        LET url == ProjectsURL \o <<"/">> \o projectId \o <<"/tags/">> \o tagIdentifier
        IN  \E d \in {Do(url, "DELETE", NoBody,
                         DeletedT, r0)} :
                Call("Projects.DeleteDatasetTag", [projectId |-> projectId, tagIdentifier |-> tagIdentifier], url, d, Finish("deleted", d))

WebhooksList ==
    /\ pc = "idle"
    /\ \E projectId \in ProjectIds, r0 \in Responses :
        LET url == HooksURL(projectId)
        IN  \E d \in {Do(url, "GET", NoBody,
                         SliceT(WebhookT), r0)} :
                Call("Webhooks.List", [projectId |-> projectId], url, d, Finish("value", d))

WebhooksCreate ==
    /\ pc = "idle"
    /\ \E projectId \in ProjectIds, r \in CreateWebhookRequests, r0 \in Responses :
        LET url == HooksURL(projectId)
        IN  \E d \in {Do(url, "POST", Body(CreateWebhookRequestJSON(r)),
                         WebhookT, r0)} :
                Call("Webhooks.Create", [projectId |-> projectId, r |-> r], url, d, Finish("pointer", d))

WebhooksGet ==
    /\ pc = "idle"
    /\ \E projectId \in ProjectIds, webhookId \in WebhookIds, r0 \in Responses :
        LET url == HooksURL(projectId) \o <<"/">> \o webhookId
        IN  \E d \in {Do(url, "GET", NoBody,
                         WebhookT, r0)} :
                Call("Webhooks.Get", [projectId |-> projectId, webhookId |-> webhookId], url, d, Finish("pointer", d))

WebhooksUpdate ==
    /\ pc = "idle"
    /\ \E projectId \in ProjectIds, webhookId \in WebhookIds, r \in UpdateWebhookRequests, r0 \in Responses :
        LET url == HooksURL(projectId) \o <<"/">> \o webhookId
        IN  \E d \in {Do(url, "PATCH", Body(UpdateWebhookRequestJSON(r)),
                         WebhookT, r0)} :
                Call("Webhooks.Update", [projectId |-> projectId, webhookId |-> webhookId, r |-> r], url, d, Finish("pointer", d))

WebhooksDelete ==
    /\ pc = "idle"
    /\ \E projectId \in ProjectIds, webhookId \in WebhookIds, r0 \in Responses :
        LET url == HooksURL(projectId) \o <<"/">> \o webhookId
        IN  \E d \in {Do(url, "DELETE", NoBody,
                         DeletedT, r0)} :
                Call("Webhooks.Delete", [projectId |-> projectId, webhookId |-> webhookId], url, d, Finish("deleted", d))

-----------------------------------------------------------------------------
(* The program *)

NoCall == [op |-> "none"]

Init ==
    /\ \E httpClient \in HttpClients : client = NewClient(httpClient)
    /\ pc = "idle"
    /\ call = NoCall
    /\ req = NoReq
    /\ nsent = 0
    /\ resp = NoResp
    /\ out = NoOut
    /\ pending = <<>>

\* A test of the package points the Webhooks service at its stand-in server:
\* client.Webhooks.testBaseURL = ts.URL
SetTestBaseURL ==
    /\ pc = "idle"
    /\ pending = <<>>
    /\ client.testBaseURL = <<>>
    /\ \E u \in TestServerURLs : client' = [client EXCEPT !.testBaseURL = u]
    /\ UNCHANGED <<pc, call, req, nsent, resp, out, pending>>

\* The caller is done with what the method returned and is free to call again:
\* nothing of a finished call is kept by the client.
CallerContinues ==
    /\ pc = "returned"
    /\ pc' = "idle"
    /\ call' = NoCall
    /\ req' = NoReq
    /\ nsent' = 0
    /\ resp' = NoResp
    /\ out' = NoOut
    /\ UNCHANGED <<client, pending>>

Next ==
    \/ ProjectsList
    \/ ProjectsCreate
    \/ ProjectsGet
    \/ ProjectsUpdate
    \/ ProjectsDelete
    \/ ListCORSEntries
    \/ CreateCORSEntry
    \/ DeleteCORSEntry
    \/ ListDatasets
    \/ CreateDataset
    \/ CopyDataset
    \/ DeleteDataset
    \/ ListActiveFeatures
    \/ CheckFeatureActive
    \/ ListPermissions
    \/ GetUser
    \/ ListProjectRoles
    \/ ListProjectTokens
    \/ CreateProjectToken
    \/ DeleteProjectToken
    \/ ListsDatasetTags
    \/ CreateDatasetTag
    \/ EditDatasetTag
    \/ AssignDatasetTag
    \/ UnassignDatasetTag
    \/ DeleteDatasetTag
    \/ WebhooksList
    \/ WebhooksCreate
    \/ WebhooksGet
    \/ WebhooksUpdate
    \/ WebhooksDelete
    \/ SetTestBaseURL
    \/ CallerContinues

Spec == Init /\ [][Next]_vars

\* Overlapping calls. A goroutine blocks in one place, inside client.Do
\* (client.go 78): everything before it (reading the client's fields, building
\* the URL, serializing) and everything after it (reading the response into
\* locals) runs without giving another goroutine a field to write.

\* How many calls may wait for their response while another one runs.
MaxPending == 1

\* The base URL a call read: what precedes the path in the URL it built. The
\* path begins with "/v2021-06-07/projects" or with "/hooks/projects/".
BaseOf(url) ==
    LET PathMarkers == {"/v2021-06-07/projects", "/hooks/projects/"}
    IN  SubSeq(url, 1,
               (CHOOSE i \in 1..Len(url) :
                    url[i] \in PathMarkers
                    /\ \A j \in 1..(i - 1) : url[j] \notin PathMarkers) - 1)

\* What is kept of a call that waits for its response: its service, the project
\* of a webhook call and the base URL it read.
Waiting(c) ==
    [webhooks |-> c.url[Len(BaseOf(c.url)) + 1] = "/hooks/projects/",
     projectId |-> IF c.url[Len(BaseOf(c.url)) + 1] = "/hooks/projects/"
                   THEN c.args.projectId ELSE <<>>,
     base |-> BaseOf(c.url)]

\* The call has sent its request and its response is yet to come, when another
\* goroutine gets to run and starts a call of its own on the same client.
Overlap ==
    /\ pc = "returned"
    /\ req.sent
    /\ Len(pending) < MaxPending
    /\ pending' = Append(pending, Waiting(call))
    /\ pc' = "idle"
    /\ call' = NoCall
    /\ req' = NoReq
    /\ nsent' = 0
    /\ resp' = NoResp
    /\ out' = NoOut
    /\ UNCHANGED client

\* The response of a waiting call arrives and the call returns to its caller.
Completes ==
    /\ pending # <<>>
    /\ \E i \in 1..Len(pending) :
           pending' = SubSeq(pending, 1, i - 1) \o SubSeq(pending, i + 1, Len(pending))
    /\ UNCHANGED <<client, pc, call, req, nsent, resp, out>>

SpecOverlap == Init /\ [][Next \/ Overlap \/ Completes]_vars

-----------------------------------------------------------------------------
(* Properties *)

\* The call returned after the transport answered with a response whose body
\* could be read to its end.
GotBody == pc = "returned" /\ resp.kind = "response" /\ resp.readOK
GotErrorBody == GotBody /\ resp.status > 299

\* The members of an object whose name is `message` in some letter case.
MessageLike(obj) == {i \in 1..Len(obj.kv) : FoldKey(obj.kv[i].k) = "message"}
\* The body is a JSON object with a member named exactly `message` that is a
\* non-empty string.
HasMessage(b) ==
    /\ b.valid
    /\ HasKey(b.val, "message")
    /\ Field(b.val, "message").t = "str"
    /\ Field(b.val, "message").s # <<>>
\* The body is a JSON object with a member named `message` in some letter case
\* that is a non-empty string.
HasMessageAnyCase(b) ==
    /\ b.valid
    /\ b.val.t = "obj"
    /\ \E i \in MessageLike(b.val) : b.val.kv[i].v.t = "str" /\ b.val.kv[i].v.s # <<>>

\* C1: for an error status (> 299) with a JSON object body whose `message` member
\* is a non-empty string m, the returned error's text is m exactly.
C1_MessageIsErrorText ==
    (GotErrorBody /\ HasMessage(resp.body))
        => out.err = NewError(Field(resp.body.val, "message").s)

\* C1, amended: the same, for a body with no second member whose name is
\* `message` in some letter case (Go's decoder stores those in the same field).
C1_SoleMessageIsErrorText ==
    (GotErrorBody /\ HasMessage(resp.body) /\ Cardinality(MessageLike(resp.body.val)) = 1)
        => out.err = NewError(Field(resp.body.val, "message").s)

C1_Witness ==
    /\ GotErrorBody
    /\ resp.status = 404
    /\ resp.body.val = JObj(<<Member("statusCode", JNum(404)),
                              Member("error", JStr(<<"Not Found">>)),
                              Member("message", JStr(Msg))>>)
    /\ out.err.text = Msg

\* C2: for an error status with a body that is not JSON, or is JSON without a
\* non-empty `message` string, the error's text contains the status code and the
\* raw body.
C2_FallbackHasStatusAndBody ==
    (GotErrorBody /\ ~HasMessage(resp.body))
        => /\ ~out.err.isNil
           /\ Contains(out.err.text, Itoa(resp.status))
           /\ Contains(out.err.text, resp.body.raw)

\* C2, amended: the same, for a body that has no non-empty string member named
\* `message` in any letter case.
C2_FallbackUnlessMessageAnyCase ==
    (GotErrorBody /\ ~HasMessageAnyCase(resp.body))
        => /\ ~out.err.isNil
           /\ Contains(out.err.text, Itoa(resp.status))
           /\ Contains(out.err.text, resp.body.raw)
           /\ out.err.text = <<"HTTP ", ToString(resp.status), ": ">> \o resp.body.raw

C2_Witness ==
    /\ GotErrorBody
    /\ resp.status = 404
    /\ ~resp.body.valid
    /\ resp.body.raw = <<"<", "html>Bad Gateway</html>">>
    /\ out.err.text = <<"HTTP ", "404", ": ", "<", "html>Bad Gateway</html>">>

\* The methods that return the `deleted` flag of the response.
DeletingOps == {"Projects.Delete", "Projects.DeleteCORSEntry", "Projects.DeleteDataset",
                "Projects.DeleteProjectToken", "Projects.UnassignDatasetTag",
                "Projects.DeleteDatasetTag", "Webhooks.Delete"}

\* C3: a response is a failure exactly when its status is > 299: up to 299 do
\* decodes the body into the output target and builds no error from `message`;
\* from 300 on it returns an error and never decodes into the target.
C3_FailureIffAbove299 ==
    (pc = "returned" /\ resp.kind = "response") =>
        /\ resp.status <= 299 =>
              /\ out.path = "decode"
              /\ (resp.readOK /\ resp.body.valid /\ resp.body.val.t = "obj"
                  /\ call.op \in DeletingOps /\ HasKey(resp.body.val, "deleted")
                  /\ Field(resp.body.val, "deleted").t = "bool")
                    => (out.err.isNil
                        /\ out.val = (Field(resp.body.val, "deleted") = JBool(TRUE)))
              /\ (resp.readOK /\ HasMessage(resp.body) /\ ~out.err.isNil)
                    => out.err.text # Field(resp.body.val, "message").s
        /\ resp.status >= 300 =>
              /\ ~out.err.isNil
              /\ out.path \in {"readfail", "message", "fallback"}
              /\ call.op \in DeletingOps => out.val = FALSE
              /\ call.op = "Projects.CheckFeatureActive" => out.val = FALSE

C3_Witness ==
    /\ pc = "returned"
    /\ call.op = "Projects.Delete"
    /\ resp.kind = "response"
    /\ resp.status = 300
    /\ resp.body.val = JObj(<<Member("deleted", JBool(TRUE))>>)
    /\ ~out.err.isNil
    /\ out.val = FALSE

\* The call in progress is a returned call of method op.
Returned(op) == pc = "returned" /\ call.op = op

\* C4: CreateDataset with a name that contains a space returns an error and a nil
\* dataset, and never invokes the transport.
C4_SpaceInNameFailsLocally ==
    (Returned("Projects.CreateDataset")
     /\ \E i \in 1..Len(call.args.r.Name) : call.args.r.Name[i] = Space)
        => /\ ~out.err.isNil
           /\ out.isNil
           /\ nsent = 0
           /\ req = NoReq

C4_Witness ==
    /\ Returned("Projects.CreateDataset")
    /\ call.args.r.Name = <<"a", Space>>
    /\ out.err = NewError(<<"name cannot contain spaces">>)
    /\ nsent = 0

\* The characters of a text.
Chars(s) == {s[i] : i \in 1..Len(s)}

\* C5: CreateDataset fails locally, without a request reaching the transport, for
\* every name that contains a white space character of any kind.
C5_AnyWhiteSpaceFailsLocally ==
    (Returned("Projects.CreateDataset") /\ Chars(call.args.r.Name) \cap WhiteSpace # {})
        => (~out.err.isNil /\ nsent = 0)

\* C5, amended: CreateDataset fails locally for every name that contains a space
\* (refused by the method) or an ASCII control character such as tab or newline
\* (refused when the request is built); nothing is sent for such a name.
C5_SpaceOrControlFailsLocally ==
    (Returned("Projects.CreateDataset")
     /\ Chars(call.args.r.Name) \cap ({Space} \cup ControlChars) # {})
        => /\ ~out.err.isNil
           /\ out.isNil
           /\ nsent = 0
           /\ req = NoReq

C5_Witness ==
    /\ Returned("Projects.CreateDataset")
    /\ call.args.r.Name = <<"a", Tab>>
    /\ ~out.err.isNil
    /\ out.path = "newrequest"
    /\ nsent = 0

\* C6: CreateDatasetTag with an empty Name or an empty Title returns an error
\* without invoking the transport; with both empty the error is the one about
\* the name.
C6_TagNameAndTitleRequired ==
    Returned("Projects.CreateDatasetTag") =>
        /\ (call.args.r.Name = <<>> \/ call.args.r.Title = <<>>)
              => (~out.err.isNil /\ nsent = 0 /\ req = NoReq)
        /\ call.args.r.Name = <<>>
              => /\ Contains(out.err.text, <<"name is required">>)
                 /\ ~Contains(out.err.text, <<"title is required">>)
        /\ (call.args.r.Name # <<>> /\ call.args.r.Title = <<>>)
              => Contains(out.err.text, <<"title is required">>)

C6_Witness ==
    /\ Returned("Projects.CreateDatasetTag")
    /\ call.args.r.Name = <<>>
    /\ call.args.r.Title = <<>>
    /\ out.err.text = <<"json: error calling MarshalJSON for type ",
                        "*sanity.CreateDatasetTagRequest", ": ", "name is required">>
    /\ nsent = 0

\* No member name occurs twice in the object.
DistinctKeys(obj) == Cardinality(KeySet(obj)) = Len(obj.kv)

\* C7: a CreateDatasetTagRequest with Name and Title serializes to an object with
\* exactly `name` and `title`, `description` iff Description is set, and
\* `metadata` (holding only `tone`) iff Tone is set.
C7_TagRequestKeys ==
    (Returned("Projects.CreateDatasetTag")
     /\ call.args.r.Name # <<>> /\ call.args.r.Title # <<>>) =>
        LET r == call.args.r
            body == req.json
        IN  /\ req.sent /\ req.hasBody
            /\ req.body = Render(body)
            /\ body.t = "obj" /\ DistinctKeys(body)
            /\ KeySet(body) = {"name", "title"}
                    \cup (IF r.Description # <<>> THEN {"description"} ELSE {})
                    \cup (IF r.Tone # <<>> THEN {"metadata"} ELSE {})
            /\ Field(body, "name") = JStr(r.Name)
            /\ Field(body, "title") = JStr(r.Title)
            /\ r.Description # <<>> => Field(body, "description") = JStr(r.Description)
            /\ r.Tone # <<>> => Field(body, "metadata") = JObj(<<Member("tone", JStr(r.Tone))>>)

C7_Witness ==
    /\ Returned("Projects.CreateDatasetTag")
    /\ call.args.r = [Name |-> <<"n">>, Title |-> <<"T">>, Description |-> <<>>,
                      Tone |-> <<"primary">>]
    /\ req.sent
    /\ Keys(req.json) = <<"name", "title", "metadata">>

WebhookOps == {"Webhooks.List", "Webhooks.Create", "Webhooks.Get", "Webhooks.Update",
               "Webhooks.Delete"}

\* s starts with prefix.
HasPrefix(s, prefix) == Len(prefix) <= Len(s) /\ SubSeq(s, 1, Len(prefix)) = prefix

\* C9: the webhook base URL is https://<projectId>.api.sanity.io/v2025-02-19
\* without an override and the override for every project with one; the five
\* webhook methods build their URL from it, never from the client's base URL.
C9_WebhookBaseURL ==
    (pc = "returned" /\ call.op \in WebhookOps) =>
        LET p == call.args.projectId
            base == IF client.testBaseURL = <<>>
                    THEN <<"https://">> \o p \o <<".api.sanity.io/v2025-02-19">>
                    ELSE client.testBaseURL
            path == <<"/hooks/projects/">> \o p
                    \o (IF call.op \in {"Webhooks.Get", "Webhooks.Update", "Webhooks.Delete"}
                        THEN <<"/">> \o call.args.webhookId ELSE <<>>)
        IN  /\ call.url = base \o path
            /\ ~HasPrefix(call.url, client.baseURL)
            /\ req.sent => req.url = call.url

C9_Witness ==
    /\ Returned("Webhooks.Delete")
    /\ client.testBaseURL = <<>>
    /\ req.sent
    /\ req.url = <<"https://", "p", "1", ".api.sanity.io/v2025-02-19",
                   "/hooks/projects/", "p", "1", "/", "w", "1">>

\* The override is used for every project.
C9_WitnessOverride ==
    /\ Returned("Webhooks.Create")
    /\ client.testBaseURL = <<"http://localhost:8080">>
    /\ req.sent
    /\ req.url = <<"http://localhost:8080", "/hooks/projects/", "a", "/", "b">>

\* The method's own validation refuses the call: a space in the dataset name.
FailsValidation ==
    call.op = "Projects.CreateDataset" /\ Space \in Chars(call.args.r.Name)
\* The request body cannot be serialized: a tag without name or title.
FailsSerialization ==
    call.op = "Projects.CreateDatasetTag"
    /\ (call.args.r.Name = <<>> \/ call.args.r.Title = <<>>)
\* The request cannot be built: the URL holds a control character.
FailsRequestConstruction == Chars(call.url) \cap ControlChars # {}

\* C10: a method call invokes the transport exactly once when validation and
\* serialization succeed, and not at all when either fails.
C10_OnceUnlessValidationOrSerializationFails ==
    pc = "returned" =>
        nsent = IF FailsValidation \/ FailsSerialization THEN 0 ELSE 1

\* C10, amended: a method call invokes the transport at most once: exactly once
\* when validation, serialization and the construction of the request succeed,
\* and not at all when one of them fails; no failure leads to a second attempt.
C10_OnceUnlessLocalFailure ==
    /\ nsent \in {0, 1}
    /\ pc = "returned" =>
          /\ nsent = IF FailsValidation \/ FailsSerialization \/ FailsRequestConstruction
                     THEN 0 ELSE 1
          /\ nsent = 0 <=> req = NoReq
          /\ nsent = 0 <=> resp = NoResp
          /\ nsent = 0 => ~out.err.isNil

C10_Witness ==
    /\ Returned("Projects.Get")
    /\ nsent = 1
    /\ resp.kind = "error"
    /\ out.err = NewError(<<"context canceled">>)

\* C11: every request handed to the transport carries Content-Type:
\* application/json, with a body and without one.
C11_ContentTypeAlwaysSet ==
    (pc = "returned" /\ req.sent) =>
        /\ req.header.ContentType = "application/json"
        /\ nsent = 1

C11_Witness ==
    /\ Returned("Projects.Get")
    /\ req.sent
    /\ ~req.hasBody
    /\ req.body = <<>>
    /\ req.header.ContentType = "application/json"

\* C12: when the transport returned a response, do closes its body exactly once
\* before it returns, whichever exit it takes: decode done, decode failed, error
\* status with a readable body, error status with a body that fails to read.
C12_BodyClosedOnce ==
    pc = "returned" =>
        /\ resp.kind = "response" =>
              /\ out.closed = 1
              /\ out.path \in {"decode", "message", "fallback", "readfail"}
        /\ resp.kind # "response" => out.closed = 0

C12_Witness ==
    /\ pc = "returned"
    /\ resp.kind = "response"
    /\ resp.status = 404
    /\ ~resp.readOK
    /\ out.path = "readfail"
    /\ out.closed = 1

\* The call returned after a response with a success status whose body could be
\* read to its end.
GotSuccessBody == GotBody /\ resp.status <= 299

\* C13: CheckFeatureActive, on a success status with the body `true` or `false`,
\* returns that boolean and a nil error.
C13_FeatureCheckBareBool ==
    (Returned("Projects.CheckFeatureActive") /\ GotSuccessBody
     /\ resp.body.valid /\ resp.body.val.t = "bool") =>
        /\ out.err.isNil
        /\ out.val = (resp.body.raw = <<"true">>)

C13_Witness ==
    /\ Returned("Projects.CheckFeatureActive")
    /\ resp.kind = "response" /\ resp.status = 200
    /\ resp.body.raw = <<"true">>
    /\ out.err.isNil
    /\ out.val = TRUE

\* No request body, verb PUT.
BodylessPut == req.sent => (req.verb = "PUT" /\ ~req.hasBody /\ req.body = <<>>)

\* C14: AssignDatasetTag sends a PUT without body and returns a nil error on a
\* success status, whatever the response body is: an object, an array, a scalar
\* or nothing at all.
C14_AssignIgnoresBody ==
    Returned("Projects.AssignDatasetTag") =>
        /\ BodylessPut
        /\ (GotSuccessBody /\ (resp.body.valid \/ resp.body.raw = <<>>)) => out.err.isNil

\* C14, amended: the same for every body that is a JSON value; an empty body
\* makes the decoder, and so the method, return the error EOF.
C14_AssignIgnoresJSONBody ==
    Returned("Projects.AssignDatasetTag") =>
        /\ BodylessPut
        /\ out.val = GoNil
        /\ (GotSuccessBody /\ resp.body.valid) => out.err.isNil
        /\ (GotSuccessBody /\ resp.body.raw = <<>>) => out.err = NewError(<<"EOF">>)

C14_Witness ==
    /\ Returned("Projects.AssignDatasetTag")
    /\ resp.kind = "response" /\ resp.status = 200
    /\ resp.body.val = JArr(<<JStr(<<"f">>)>>)
    /\ req.verb = "PUT"
    /\ out.err.isNil

\* The type of the value a method returns, for the methods that return a struct
\* or a list.
ResultTypeOf(op) ==
    CASE op = "Projects.List" -> SliceT(ProjectT)
      [] op \in {"Projects.Create", "Projects.Get", "Projects.Update"} -> ProjectT
      [] op = "Projects.ListCORSEntries" -> SliceT(CORSEntryT)
      [] op = "Projects.CreateCORSEntry" -> CORSEntryT
      [] op = "Projects.ListDatasets" -> SliceT(DatasetT)
      [] op = "Projects.CreateDataset" -> DatasetT
      [] op = "Projects.CopyDataset" -> CopyDatasetResponseT
      [] op \in {"Projects.ListActiveFeatures", "Projects.ListPermissions"} -> SliceT(StringT)
      [] op = "Projects.GetUser" -> UserT
      [] op = "Projects.ListProjectRoles" -> SliceT(ProjectRoleT)
      [] op = "Projects.ListProjectTokens" -> SliceT(ProjectTokenT)
      [] op = "Projects.CreateProjectToken" -> CreateProjectTokenResponseT
      [] op = "Projects.ListsDatasetTags" -> SliceT(DatasetTagT)
      [] op \in {"Projects.CreateDatasetTag", "Projects.EditDatasetTag"} -> DatasetTagT
      [] op = "Webhooks.List" -> SliceT(WebhookT)
      [] op \in {"Webhooks.Create", "Webhooks.Get", "Webhooks.Update"} -> WebhookT

\* The methods that return a struct or a list.
ResultOps ==
    {"Projects.List", "Projects.Create", "Projects.Get", "Projects.Update",
     "Projects.ListCORSEntries", "Projects.CreateCORSEntry", "Projects.ListDatasets",
     "Projects.CreateDataset", "Projects.CopyDataset", "Projects.ListActiveFeatures",
     "Projects.ListPermissions", "Projects.GetUser", "Projects.ListProjectRoles",
     "Projects.ListProjectTokens", "Projects.CreateProjectToken",
     "Projects.ListsDatasetTags", "Projects.CreateDatasetTag", "Projects.EditDatasetTag",
     "Webhooks.List", "Webhooks.Create", "Webhooks.Get", "Webhooks.Update"}

RECURSIVE SameValue(_, _, _)
\* Two values of type T are equal field by field.
SameValue(T, a, b) ==
    CASE T.kind = "struct" ->
            \A i \in 1..Len(T.fields) :
                SameValue(T.fields[i].type, a[T.fields[i].name], b[T.fields[i].name])
      [] T.kind = "slice" ->
            /\ IsNil(a) = IsNil(b)
            /\ ~IsNil(a) => /\ Len(a) = Len(b)
                            /\ \A i \in 1..Len(a) : SameValue(T.elem, a[i], b[i])
      [] T.kind \in {"map", "any"} ->
            /\ IsNil(a) = IsNil(b)
            /\ ~IsNil(a) => a = b
      [] OTHER -> a = b

\* The method of the call returned x after a success status whose body is the
\* encoding of x.
RoundTrips ==
    LET T == ResultTypeOf(call.op)
    IN  \A i \in 1..Len(ResultValues(T)) :
            resp.body.val = Encode(T, ResultValues(T)[i])
                => /\ out.err.isNil
                   /\ ~out.isNil
                   /\ SameValue(T, out.val, ResultValues(T)[i])

\* C15: for a success status whose body is the JSON encoding of a value of the
\* method's result type, the method returns a value with the same fields.
C15_RoundTrip ==
    (pc = "returned" /\ call.op \in ResultOps /\ GotSuccessBody /\ resp.body.valid)
        => RoundTrips

\* C15, amended: the same for every method but CreateDataset, which reads the
\* name of the dataset from the member `datasetName`, not `name`.
C15_RoundTripButCreateDataset ==
    (pc = "returned" /\ call.op \in ResultOps \ {"Projects.CreateDataset"}
     /\ GotSuccessBody /\ resp.body.valid)
        => RoundTrips

C15_Witness ==
    /\ Returned("Webhooks.Create")
    /\ resp.kind = "response" /\ resp.status = 200
    /\ resp.body.val = Encode(WebhookT, Sample(WebhookT))
    /\ HasKey(resp.body.val, "headers")
    /\ out.err.isNil
    /\ out.val["id"] = <<"s">>
    /\ out.val["includeDrafts"] = TRUE
    /\ out.val = Sample(WebhookT)

\* C16: an error the request executor returns is returned by the method that
\* called it as the same error value: not replaced, wrapped or dropped.
C16_ErrorsPropagateUnchanged ==
    (pc = "returned" /\ call.do.called /\ ~call.do.err.isNil)
        => out.err = call.do.err

C16_Witness ==
    /\ Returned("Projects.CreateDataset")
    /\ call.do.called
    /\ resp.kind = "response" /\ resp.status = 404
    /\ HasMessage(resp.body)
    /\ ~call.do.err.isNil
    /\ out.err = call.do.err
    /\ out.isNil

\* The path-encoded form of a character (url.PathEscape).
EscapeChar(c) ==
    CASE c = "/" -> <<"%", "2", "F">>
      [] c = "?" -> <<"%", "3", "F">>
      [] c = Space -> <<"%", "2", "0">>
      [] c = Tab -> <<"%", "0", "9">>
      [] c = Newline -> <<"%", "0", "A">>
      [] c = NoBreakSpace -> <<"%", "C", "2", "%", "A", "0">>
      [] OTHER -> <<c>>

RECURSIVE PathEscape(_)
\* The path-encoded form of a text.
PathEscape(s) == IF s = <<>> THEN <<>> ELSE EscapeChar(Head(s)) \o PathEscape(Tail(s))

\* The arguments of a call that are identifiers.
IdArgs ==
    {"projectId", "datasetName", "featureName", "userId", "tokenId", "tagIdentifier",
     "webhookId"}
\* The texts the caller passed as identifiers, the names inside the dataset
\* requests included.
Identifiers ==
    {call.args[k] : k \in {a \in IdArgs : a \in DOMAIN call.args}}
    \cup (IF call.op = "Projects.CreateDataset" THEN {call.args.r.Name} ELSE {})
    \cup (IF call.op = "Projects.CopyDataset" THEN {call.args.r.SourceDataset} ELSE {})

\* The verb fixed for each operation.
VerbOf(op) ==
    CASE op \in {"Projects.Create", "Projects.CreateCORSEntry", "Projects.CreateProjectToken",
                 "Projects.CreateDatasetTag", "Webhooks.Create"} -> "POST"
      [] op \in {"Projects.Update", "Webhooks.Update"} -> "PATCH"
      [] op \in {"Projects.CreateDataset", "Projects.CopyDataset", "Projects.EditDatasetTag",
                 "Projects.AssignDatasetTag"} -> "PUT"
      [] op \in {"Projects.Delete", "Projects.DeleteCORSEntry", "Projects.DeleteDataset",
                 "Projects.DeleteProjectToken", "Projects.UnassignDatasetTag",
                 "Projects.DeleteDatasetTag", "Webhooks.Delete"} -> "DELETE"
      [] OTHER -> "GET"

\* C17: the URL of the request a method sends holds every identifier of the call
\* in path-encoded form, and the request has the verb fixed for the operation.
C17_PathEncodedIdentifiers ==
    (pc = "returned" /\ req.sent)
        => /\ req.verb = VerbOf(call.op)
           /\ \A id \in Identifiers : Contains(req.url, PathEscape(id))

\* C17, amended: the URL holds every identifier as the caller passed it, not
\* encoded, and the request has the verb fixed for the operation.
C17_VerbatimIdentifiers ==
    (pc = "returned" /\ req.sent)
        => /\ req.verb = VerbOf(call.op)
           /\ \A id \in Identifiers : Contains(req.url, id)

C17_Witness ==
    /\ Returned("Webhooks.Update")
    /\ req.sent
    /\ req.verb = "PATCH"
    /\ call.args.projectId = <<"p", "1">>
    /\ call.args.webhookId = <<"w", "?", "x">>
    /\ Contains(req.url, <<"p", "1">>)
    /\ Contains(req.url, <<"w", "?", "x">>)
    /\ ~Contains(req.url, <<"%">>)

\* The optional booleans of each request type, with the key each is serialized
\* under.
OptionalBools(op) ==
    CASE op = "Projects.Update" ->
            {<<"IsDisabledByUser", "isDisabledByUser">>,
             <<"ActivityFeedEnabled", "activityFeedEnabled">>}
      [] op = "Projects.CreateCORSEntry" -> {<<"AllowCredentials", "allowCredentials">>}
      [] op = "Webhooks.Create" ->
            {<<"IncludeDrafts", "includeDrafts">>,
             <<"IsDisabledByUser", "isDisabledByUser">>}
      [] op = "Webhooks.Update" ->
            {<<"IncludeDrafts", "includeDrafts">>, <<"IsDisabled", "isDisabled">>}
      [] OTHER -> {}

\* The field f of request r is absent from the body when unset and is the member
\* `key`, with its value, when set.
TriState(r, f, key) ==
    /\ r[f] = Unset => ~HasKey(req.json, key)
    /\ r[f] # Unset => /\ HasKey(req.json, key)
                       /\ Field(req.json, key) = JBool(r[f][1])

\* C18: the request types have the optional booleans listed, and each is omitted
\* from the serialized body when unset and serialized with its value, false
\* included, when set.
C18_OptionalBoolsTriState ==
    (pc = "returned" /\ req.sent)
        => \A fk \in OptionalBools(call.op) :
               /\ fk[1] \in DOMAIN call.args.r
               /\ TriState(call.args.r, fk[1], fk[2])

\* The optional booleans the request types do have are tri-state.
C18_DeclaredBoolsTriState ==
    (pc = "returned" /\ req.sent)
        => \A fk \in OptionalBools(call.op) :
               fk[1] \in DOMAIN call.args.r => TriState(call.args.r, fk[1], fk[2])

C18_DeclaredWitness ==
    /\ Returned("Webhooks.Update")
    /\ req.sent
    /\ call.args.r.IsDisabled = <<FALSE>>
    /\ call.args.r.IncludeDrafts = Unset
    /\ Field(req.json, "isDisabled") = JBool(FALSE)
    /\ ~HasKey(req.json, "includeDrafts")

\* C19: the body of the request Webhooks.Create sends has the members `type` and
\* `name`, and the members `dataset` and `url` with the caller's values.
C19_CreateWebhookEmitsTypeAndName ==
    (Returned("Webhooks.Create") /\ req.sent)
        => /\ HasKey(req.json, "type")
           /\ HasKey(req.json, "name")
           /\ HasKey(req.json, "dataset")
           /\ Field(req.json, "dataset") = JStr(call.args.r.Dataset)
           /\ HasKey(req.json, "url")
           /\ Field(req.json, "url") = JStr(call.args.r.URL)

\* The body of the request Webhooks.Create sends has the members `dataset` and
\* `url` with the caller's values, and no member `type` or `name`.
C19_CreateWebhookEmitsDatasetAndURL ==
    (Returned("Webhooks.Create") /\ req.sent)
        => /\ ~HasKey(req.json, "type")
           /\ ~HasKey(req.json, "name")
           /\ HasKey(req.json, "dataset")
           /\ Field(req.json, "dataset") = JStr(call.args.r.Dataset)
           /\ HasKey(req.json, "url")
           /\ Field(req.json, "url") = JStr(call.args.r.URL)

\* C20: an UpdateWebhookRequest has a Name, and the body of the request
\* Webhooks.Update sends for a non-empty Name has it as the member `name`.
C20_UpdateWebhookEmitsName ==
    (Returned("Webhooks.Update") /\ req.sent)
        => /\ "Name" \in DOMAIN call.args.r
           /\ call.args.r.Name # <<>>
                => (HasKey(req.json, "name")
                    /\ Field(req.json, "name") = JStr(call.args.r.Name))

\* The body of the request Webhooks.Update sends never has a member `name`.
C20_UpdateWebhookNeverEmitsName ==
    (Returned("Webhooks.Update") /\ req.sent) => ~HasKey(req.json, "name")

\* C21: the client NewClient returned has a Projects and a Webhooks service that
\* are not nil and refer back to that client; its transport is the default HTTP
\* client when NewClient was given nil, and the given one otherwise.
C21_ServicesReferBack ==
    /\ ~client.Projects.nil
    /\ ProjectsClient(client) = ClientAddr
    /\ ~client.Webhooks.nil
    /\ WebhooksClient(client) = ClientAddr
    /\ \E h \in HttpClients : [client EXCEPT !.testBaseURL = <<>>] = NewClient(h)
    /\ \A h \in HttpClients :
           NewClient(h).client = IF h = "nil" THEN DefaultClient ELSE h

C21_Witness ==
    /\ Returned("Webhooks.List")
    /\ client.client = DefaultClient
    /\ ~client.Webhooks.nil
    /\ WebhooksClient(client) = ClientAddr
    /\ ProjectsClient(client) = ClientAddr

\* The base URL the client gives now for a call of that service and project.
BaseNow(w) == IF w.webhooks THEN getWebhookBaseURL(w.projectId) ELSE client.baseURL

ListOps ==
    {"Projects.List", "Projects.ListCORSEntries", "Projects.ListDatasets",
     "Projects.ListActiveFeatures", "Projects.ListPermissions", "Projects.ListProjectRoles",
     "Projects.ListProjectTokens", "Projects.ListsDatasetTags", "Webhooks.List"}

\* The request executor was called and failed before a response came, or the
\* response has an error status.
NoSuccessResponse ==
    /\ pc = "returned"
    /\ call.do.called
    /\ \/ resp.kind # "response"
       \/ resp.status > 299

\* C23: when the call fails before a response is received or the status is
\* > 299, the output target is not written: a deletion method returns false, a
\* list method an empty list and CheckFeatureActive false, each with the error.
C23_TargetUntouchedOnFailure ==
    NoSuccessResponse
        => /\ ~out.err.isNil
           /\ call.op \in DeletingOps => out.val = FALSE
           /\ call.op \in ListOps => IsNil(out.val)
           /\ call.op = "Projects.CheckFeatureActive" => out.val = FALSE

C23_Witness ==
    /\ Returned("Webhooks.Delete")
    /\ resp.kind = "response" /\ resp.status = 404 /\ resp.readOK
    /\ resp.body.val = JObj(<<Member("deleted", JBool(TRUE))>>)
    /\ out.val = FALSE
    /\ ~out.err.isNil

\* The same for a list and for a call that never got a response.
C23_WitnessNoResponse ==
    /\ Returned("Projects.ListDatasets")
    /\ call.do.called
    /\ resp.kind = "error"
    /\ IsNil(out.val)
    /\ out.err = resp.err

\* The string the body states under the key k, and the empty string when it
\* states none.
StringMember(v, k) ==
    IF HasKey(v, k) /\ Field(v, k).t = "str" THEN Field(v, k).s ELSE <<>>

\* A failure of a CreateDataset call, of one of the kinds the claim lists.
CreateDatasetFails ==
    \/ FailsValidation
    \/ FailsRequestConstruction
    \/ resp.kind = "error"
    \/ resp.kind = "response" /\ resp.status > 299
    \/ resp.kind = "response" /\ ~resp.readOK
    \/ resp.kind = "response" /\ resp.status <= 299 /\ ~resp.body.valid

\* C24: CreateDataset returns a nil dataset with an error on every failure, and
\* otherwise a dataset with a nil error, whose Name is the `datasetName` and whose
\* AclMode is the `aclMode` of the response: never both and never neither.
C24_CreateDatasetOneOfTwo ==
    Returned("Projects.CreateDataset")
        => /\ out.isNil = ~out.err.isNil
           /\ CreateDatasetFails => ~out.err.isNil
           /\ out.err.isNil
                => /\ out.val.name = StringMember(resp.body.val, "datasetName")
                   /\ out.val.aclMode = StringMember(resp.body.val, "aclMode")

C24_Witness ==
    /\ Returned("Projects.CreateDataset")
    /\ resp.kind = "response" /\ resp.status = 200
    /\ resp.body.val = JObj(<<Member("datasetName", JStr(<<"d", "s">>)),
                              Member("aclMode", JStr(<<"private">>))>>)
    /\ out.err.isNil
    /\ ~out.isNil
    /\ out.val.name = <<"d", "s">>
    /\ out.val.aclMode = <<"private">>

\* A failure: an error status whose body states a dataset.
C24_WitnessFailure ==
    /\ Returned("Projects.CreateDataset")
    /\ resp.kind = "response" /\ resp.status = 404
    /\ resp.body.val = JObj(<<Member("datasetName", JStr(<<"d", "s">>)),
                              Member("aclMode", JStr(<<"private">>))>>)
    /\ ~out.err.isNil
    /\ out.isNil

\* An EditDatasetTag call whose request has an empty Name or an empty Title.
EditsWithoutNameOrTitle ==
    /\ Returned("Projects.EditDatasetTag")
    /\ (call.args.r.Name = <<>> \/ call.args.r.Title = <<>>)

\* The request sent is one PUT whose body has the member `name` always, and
\* `title`, `description` and `metadata.tone` exactly when they are not empty.
SentAsEdited ==
    /\ nsent = 1
    /\ req.sent
    /\ req.verb = "PUT"
    /\ req.hasBody
    /\ HasKey(req.json, "name")
    /\ Field(req.json, "name") = JStr(call.args.r.Name)
    /\ HasKey(req.json, "title") = (call.args.r.Title # <<>>)
    /\ HasKey(req.json, "title") => Field(req.json, "title") = JStr(call.args.r.Title)
    /\ HasKey(req.json, "description") = (call.args.r.Description # <<>>)
    /\ HasKey(req.json, "description")
           => Field(req.json, "description") = JStr(call.args.r.Description)
    /\ HasKey(req.json, "metadata") = (call.args.r.Tone # <<>>)
    /\ HasKey(req.json, "metadata")
           => Field(req.json, "metadata") = JObj(<<Member("tone", JStr(call.args.r.Tone))>>)

\* C25: EditDatasetTag does not validate: a request with an empty Name or Title
\* is serialized and sent to the remote with exactly one PUT.
C25_EditSendsUnvalidated ==
    EditsWithoutNameOrTitle => SentAsEdited

\* C25, amended: the same, when the project id and the tag identifier hold no
\* control character, so that the request can be built.
C25_EditSendsUnvalidatedIfBuilt ==
    (EditsWithoutNameOrTitle /\ ~FailsRequestConstruction) => SentAsEdited

C25_Witness ==
    /\ Returned("Projects.EditDatasetTag")
    /\ call.args.r = [Name |-> <<>>, Title |-> <<>>, Description |-> <<>>,
                      Tone |-> <<"primary">>]
    /\ nsent = 1
    /\ req.verb = "PUT"
    /\ req.json = JObj(<<Member("name", JStr(<<>>)),
                         Member("metadata", JObj(<<Member("tone", JStr(<<"primary">>))>>))>>)

====
